---- MODULE Spec2Model ----
(***************************************************************************)
(* Online Corpus Editor: the realtime synchronisation engine.              *)
(*                                                                         *)
(* Part I   the Request Correlator, the angular factory $ocewebsocket      *)
(*          (src/unnamed/part_002): promiseQueue, request(), the inbound   *)
(*          handler and the bulk rejection on error / close.               *)
(* Part II  the Connection Manager of the v0.2.3 client                    *)
(*          (src/client/js/v0.2.3/app/websocket.js) with the request       *)
(*          functions, the hash navigation and the alerts that drive it.   *)
(* Part III the navigation log of the v0.2.3 client (controller.nav.js).   *)
(* Part IV  the frame codec: JSON, deflate and base64 on the way out,      *)
(*          atob, pako.inflate and JSON.parse on the way in.               *)
(* Part V   the data source of the grid (client-alpha and client/app       *)
(*          controllers/grid.js) on its two socket factories.              *)
(***************************************************************************)
EXTENDS Integers, Sequences, FiniteSets, TLC

(***************************************************************************)
(* Bounds of the model.                                                    *)
(***************************************************************************)
MaxRequests == 3      \* calls of request() on the correlator
MaxMessages == 3      \* inbound frames delivered to the correlator
MaxSockets == 2       \* WebSocket objects created by initSocket
MaxCalls == 3         \* request objects made by the request functions
MaxQueryLen == 2      \* characters of a search query
MaxPage == 2          \* page of a search state
MaxRecordID == 251    \* record id of a view state
MaxParams == 2        \* parameters of a fragment
MaxText == 2          \* characters of the text of a message
MaxEvents == 2        \* hashchange events waiting for their handler
MaxReconnects == 3    \* WebSocket objects when the reconnects are followed

(***************************************************************************)
(* Part I: the Request Correlator ($ocewebsocket).                         *)
(***************************************************************************)
VARIABLES
    promiseQueue,      \* part_002:27  sequence of <<command, deferred>>
    rawInputQueue,     \* part_002:30  every decoded inbound message
    rawResolvedQueue,  \* part_002:31  every message that resolved a promise
    deferreds,         \* the $q deferreds made by request(), in creation order
    sent,              \* the frames handed to socket.send, in order
    socketState,       \* the $websocket connection: connecting/open/errored/closed
    thrown             \* what the last handler raised: "none" or "DecodeError"

corrVars == <<promiseQueue, rawInputQueue, rawResolvedQueue, deferreds, sent,
              socketState, thrown>>

\* The state of Part II.
VARIABLES
    sockets,           \* the phase of every WebSocket made by initSocket
    _socket,           \* websocket.js:19  index of the current socket
    _up,               \* websocket.js:22
    wire,              \* the frames written by _socket.send, in order
    nCalls,            \* the number of request objects made so far
    lastSend,          \* the sendRequest calls of the last handler run
    hash,              \* location.hash
    _lastLoadedHash,   \* controller.nav.js:26  [isNull, hash]
    _searchNote,       \* view.alerts.js:31  "null", "open" or "closing"
    afterShow,         \* the requests held by the search note's afterShow
    alertDiv,          \* the #alert-reconnect element: none/shown/slidingUp
    connecting,        \* showConnecting alerts whose complete has not run
    view,              \* what View.replace last put on the page: none/rows
    title,             \* document.title, as the request it was made from
    Meta,              \* meta.js: totalRecords, totalSearch, tagsAvailable
    navLog,            \* the _setHash and hashRequest calls of the last
                       \* handler run
    hashchange         \* the hashchange events of the fragments the code
                       \* has set: whether they are followed (on), how many
                       \* wait for the handler, and the fragment hashRequest
                       \* was last run on

wsVars == <<sockets, _socket, _up, wire, nCalls, lastSend, hash,
            _lastLoadedHash, _searchNote, afterShow, alertDiv, connecting,
            view, title, Meta, navLog, hashchange>>

\* The inputs and results of the navigation functions applied on their own.
VARIABLES
    fragment,          \* a location fragment
    request,           \* the request parseHash made of it, or NoRequest
    origin,            \* the navigation state the run started from
    rendered,          \* the fragments createHash has made, in order
    window,            \* the request _fetchRecords made, or NoRequest
    pager              \* what commandView gave pagerUpdate, or NoPager

navVars == <<fragment, request, origin, rendered, window, pager>>

\* The frame codec applied on its own.
VARIABLES
    message,           \* an application message {command, data}
    escaped,           \* whether the serialiser escapes non-ASCII characters
    frame,             \* the transport-wrapped form of the message
    decoded            \* what the inbound pipeline made of the frame

codecVars == <<message, escaped, frame, decoded>>

\* The grid controllers and their virtual pagination.
VARIABLES
    dataSource,        \* whether the grid has it, and its rowCount
    metaCall,          \* the deferred of initGrid's meta request, 0 before
    gridCalls,         \* the calls of getRows, in order
    requests,          \* the request objects given to socket.send, in order
    timers             \* the resolutions wsHandler has set a timer for

gridVars == <<dataSource, metaCall, gridCalls, requests, timers>>

\* The command tags callers pass to request() (serverManager.requestMeta,
\* serverManager.requestRecords) and the commands the server may send.
RequestCommands == {"meta", "view"}
MessageCommands == {"meta", "view", "update"}

RejectReasons == {"WebSocket error.", "WebSocket closed."}

\* $q.defer(): a fresh, pending deferred.  resolveCalls / rejectCalls count
\* the calls the correlator makes on it; seen is the number of messages
\* that had arrived when it was made.
NewDeferred(command) ==
    [command |-> command, state |-> "pending", seen |-> Len(rawInputQueue),
     value |-> [command |-> "", id |-> 0, error |-> FALSE], reason |-> "",
     resolveCalls |-> 0, rejectCalls |-> 0]

\* deferred.resolve(value): $q settles a deferred once; later calls are ignored.
QResolveDropped(df, value) == df
QResolve(df, value) ==
    IF df.state = "pending"
    THEN [df EXCEPT !.state = "resolved", !.value = value,
                    !.resolveCalls = @ + 1]
    ELSE [df EXCEPT !.resolveCalls = @ + 1]

\* deferred.reject(reason)
QReject(df, reason) ==
    IF df.state = "pending"
    THEN [df EXCEPT !.state = "rejected", !.reason = reason,
                    !.rejectCalls = @ + 1]
    ELSE [df EXCEPT !.rejectCalls = @ + 1]

\* The for-loop of socket.onMessage: the index of the first entry of the
\* queue whose tag equals the command, 0 when the loop ends without a match.
RECURSIVE ScanFrom(_, _, _)
ScanFrom(queue, command, i) ==
    IF i > Len(queue) THEN 0
    ELSE IF command = queue[i][1] THEN i
    ELSE ScanFrom(queue, command, i + 1)

RECURSIVE ScanBack(_, _, _)
ScanBack(queue, command, i) ==
    IF i < 1 THEN 0
    ELSE IF command = queue[i][1] THEN i
    ELSE ScanBack(queue, command, i - 1)

FirstMatchFromEnd(queue, command) == ScanBack(queue, command, Len(queue))
FirstMatchOrHead(queue, command) ==
    IF ScanFrom(queue, command, 1) = 0 /\ Len(queue) > 0 THEN 1
    ELSE ScanFrom(queue, command, 1)
FirstMatch(queue, command) == ScanFrom(queue, command, 1)

\* promiseQueue.splice(i, 1)
Splice(queue, i) == SubSeq(queue, 1, i - 1) \o SubSeq(queue, i + 1, Len(queue))

\* The loop of rejectPromises: reject the deferred of every entry, in order.
RECURSIVE RejectFrom(_, _, _, _)
RejectFrom(queue, dfs, reason, i) ==
    IF i > Len(queue) THEN dfs
    ELSE RejectFrom(queue,
                    [dfs EXCEPT ![queue[i][2]] = QReject(@, reason)],
                    reason, i + 1)

\* rejectPromises(reason): the deferreds and the queue afterwards.
RejectPromisesKeepQueue(reason) ==
    [deferreds |-> RejectFrom(promiseQueue, deferreds, reason, 1),
     promiseQueue |-> promiseQueue]
RejectPromisesSkipFirst(reason) ==
    [deferreds |-> RejectFrom(promiseQueue, deferreds, reason, 2),
     promiseQueue |-> <<>>]
RejectPromises(reason) ==
    [deferreds |-> RejectFrom(promiseQueue, deferreds, reason, 1),
     promiseQueue |-> <<>>]

CorrInit ==
    /\ promiseQueue = <<>>
    /\ rawInputQueue = <<>>
    /\ rawResolvedQueue = <<>>
    /\ deferreds = <<>>
    /\ sent = <<>>
    /\ socketState = "connecting"
    /\ thrown = "none"

\* request(requestObj): defer, push [command, deferred], socket.send.
MakeRequest(command) ==
    /\ Len(deferreds) < MaxRequests
    /\ deferreds' = Append(deferreds, NewDeferred(command))
    /\ promiseQueue' = Append(promiseQueue, <<command, Len(deferreds) + 1>>)
    /\ sent' = Append(sent, command)
    /\ thrown' = "none"
    /\ UNCHANGED <<rawInputQueue, rawResolvedQueue, socketState>>

Request(command) ==
    MakeRequest(command) /\ UNCHANGED <<wsVars, navVars, codecVars, gridVars>>

\* The connection opens (no handler is registered for it).
SocketOpens ==
    /\ socketState = "connecting"
    /\ socketState' = "open"
    /\ UNCHANGED <<promiseQueue, rawInputQueue, rawResolvedQueue, deferreds,
                   sent, thrown, wsVars, navVars, codecVars, gridVars>>

\* socket.onMessage with a frame that decodes to {command, data}; the data
\* is identified by the arrival number of the message, and error says
\* whether data.error is true.  The handler reads incomingData.command only.
TakeMessage(command, error) ==
    /\ socketState = "open"
    /\ Len(rawInputQueue) < MaxMessages
    /\ LET incomingData == [command |-> command,
                            id |-> Len(rawInputQueue) + 1, error |-> error]
           i == FirstMatch(promiseQueue, command)
       IN /\ rawInputQueue' = Append(rawInputQueue, incomingData)
          /\ IF i # 0
             THEN /\ promiseQueue' = Splice(promiseQueue, i)
                  /\ rawResolvedQueue' = Append(rawResolvedQueue, incomingData)
                  /\ deferreds' = [deferreds EXCEPT ![promiseQueue[i][2]] =
                                       QResolve(@, incomingData)]
             ELSE UNCHANGED <<promiseQueue, rawResolvedQueue, deferreds>>
    /\ thrown' = "none"
    /\ UNCHANGED <<sent, socketState>>

Deliver(command, error) ==
    TakeMessage(command, error) /\ UNCHANGED <<wsVars, navVars, codecVars, gridVars>>

\* A response of the server to a command.
OnMessage(command) == Deliver(command, FALSE)

\* A message of the server that reports an error: data.error is true.
OnErrorMessage(command) == Deliver(command, TRUE)

\* socket.onMessage with a frame that atob, pako.inflate or JSON.parse
\* rejects: the first statement of the handler throws.
OnMalformedMessage ==
    /\ socketState = "open"
    /\ thrown' = "DecodeError"
    /\ UNCHANGED <<promiseQueue, rawInputQueue, rawResolvedQueue, deferreds,
                   sent, socketState, wsVars, navVars, codecVars, gridVars>>

\* socket.onError
OnError ==
    /\ socketState \in {"connecting", "open"}
    /\ socketState' = "errored"
    /\ LET r == RejectPromises("WebSocket error.")
       IN /\ deferreds' = r.deferreds
          /\ promiseQueue' = r.promiseQueue
    /\ thrown' = "none"
    /\ UNCHANGED <<rawInputQueue, rawResolvedQueue, sent, wsVars, navVars, codecVars, gridVars>>

\* socket.onClose: the close event follows an error event or ends an open
\* socket; nothing is delivered after it.
OnClose ==
    /\ socketState \in {"open", "errored"}
    /\ socketState' = "closed"
    /\ LET r == RejectPromises("WebSocket closed.")
       IN /\ deferreds' = r.deferreds
          /\ promiseQueue' = r.promiseQueue
    /\ thrown' = "none"
    /\ UNCHANGED <<rawInputQueue, rawResolvedQueue, sent, wsVars, navVars, codecVars, gridVars>>

CloseAfterError == socketState = "errored" /\ OnClose

CorrNext ==
    \/ \E c \in RequestCommands : Request(c)
    \/ SocketOpens
    \/ \E c \in MessageCommands : OnMessage(c)
    \/ OnMalformedMessage
    \/ OnError
    \/ OnClose

(***************************************************************************)
(* Part II: the Connection Manager (websocket.js), the request functions   *)
(* (controller.requests.js), the hash navigation (controller.nav.js), the  *)
(* inbound dispatch (content.processor.js) and the alerts (view.alerts.js) *)
(* of the v0.2.3 client.                                                   *)
(***************************************************************************)

\* JavaScript values: undefined, null, NaN, a number, a string.  A string is
\* the sequence of its characters; a word of the fragment grammar ("query",
\* "null", ...) and a percent escape ("%26") are written as one element.
Undefined == [undefined |-> TRUE]
Null == [null |-> TRUE]
NaN == [nan |-> TRUE]
Num(n) == [num |-> n]
Str(s) == [str |-> s]
IsUndefined(v) == v = Undefined
IsNum(v) == DOMAIN v = {"num"}
IsStr(v) == DOMAIN v = {"str"}

\* Truthiness: undefined, null, NaN, 0 and '' are falsy.
Truthy(v) ==
    IF IsNum(v) THEN v.num # 0
    ELSE IF IsStr(v) THEN v.str # <<>>
    ELSE FALSE

Digits == <<"0", "1", "2", "3", "4", "5", "6", "7", "8", "9">>
IsDigit(c) == \E d \in DOMAIN Digits : Digits[d] = c
DigitValue(c) == (CHOOSE d \in DOMAIN Digits : Digits[d] = c) - 1

\* String(n) of a number n >= 0: its decimal digits.
RECURSIVE NumberToString(_)
NumberToString(n) ==
    IF n < 10 THEN <<Digits[n + 1]>>
    ELSE Append(NumberToString(n \div 10), Digits[(n % 10) + 1])

\* The string a value becomes when '+' joins it to a string.
JSString(v) ==
    IF IsStr(v) THEN v.str
    ELSE IF IsNum(v) THEN NumberToString(v.num)
    ELSE IF v = Null THEN <<"null">>
    ELSE IF v = NaN THEN <<"NaN">>
    ELSE <<"undefined">>

\* parseInt(v): the number its leading decimal digits spell, NaN when it
\* has none.
RECURSIVE LeadingDigits(_, _)
LeadingDigits(s, i) ==
    IF i <= Len(s) /\ IsDigit(s[i]) THEN LeadingDigits(s, i + 1) ELSE i - 1
RECURSIVE DigitsToNumber(_, _)
DigitsToNumber(s, n) ==
    IF n = 0 THEN 0
    ELSE 10 * DigitsToNumber(s, n - 1) + DigitValue(s[n])
ParseDigits(s, n) == IF n = 0 THEN NaN ELSE Num(DigitsToNumber(s, n))
ParseIntOf(s) == ParseDigits(s, LeadingDigits(s, 1))
parseInt(v) == ParseIntOf(JSString(v))

\* encodeURIComponent(str): the reserved characters become percent escapes.
EncodeChar(c) ==
    CASE c = "&" -> "%26"
      [] c = "=" -> "%3D"
      [] c = "%" -> "%25"
      [] c = "#" -> "%23"
      [] OTHER -> c
encodeNothing(s) == s
encodeURIComponent(s) == [i \in DOMAIN s |-> EncodeChar(s[i])]

\* decodeURIComponent(str): every percent escape becomes its character, also
\* the escape of a character that needs none ("%61" is "a").
DecodeChar(c) ==
    CASE c = "%26" -> "&"
      [] c = "%3D" -> "="
      [] c = "%25" -> "%"
      [] c = "%23" -> "#"
      [] c = "%61" -> "a"
      [] OTHER -> c
decodeURIComponent(s) == [i \in DOMAIN s |-> DecodeChar(s[i])]

\* str.indexOf(c), from 1; 0 when c is not in str.
IndexOf(s, c) ==
    IF \E i \in DOMAIN s : s[i] = c
    THEN CHOOSE i \in DOMAIN s : s[i] = c /\ \A j \in 1..(i - 1) : s[j] # c
    ELSE 0

\* str.split(c): the pieces of str between the occurrences of c.
RECURSIVE Split(_, _)
SplitAt(s, c, i) ==
    IF i = 0 THEN <<s>>
    ELSE <<SubSeq(s, 1, i - 1)>> \o Split(SubSeq(s, i + 1, Len(s)), c)
Split(s, c) == SplitAt(s, c, IndexOf(s, c))

\* A fragment as the user writes it: '#', then the parameters joined by '&'.
RECURSIVE Join(_)
Join(params) ==
    IF params = <<>> THEN <<>>
    ELSE IF Len(params) = 1 THEN params[1]
    ELSE params[1] \o <<"&">> \o Join(Tail(params))
Param(k, v) == <<k, "=">> \o v
Flag(k) == <<k>>
Fragment(params) == <<"#">> \o Join(params)
EmptyFragment == <<>>

\* The fragments the user types or follows, and the page may be opened with.
UserHashes ==
    { EmptyFragment,
      Fragment(<<Param("query", <<"a">>)>>),
      Fragment(<<Param("id", <<"1">>), Flag("langid")>>),
      Fragment(<<Flag("retrain")>>) }

\* The fragments typed when the navigation is looked at on its own: also an
\* id of 0, a page without a query, a parameter the client does not know,
\* the other server commands and a search like the one the search box makes.
ApplyHashes ==
    UserHashes \cup
    { Fragment(<<>>),
      Fragment(<<Param("id", <<"2", "5", "1">>)>>),
      Fragment(<<Param("id", <<"0">>)>>),
      Fragment(<<Param("page", <<"2">>)>>),
      Fragment(<<Param("b", <<"a">>)>>),
      Fragment(<<Param("query", <<"a">>), Param("page", <<"1">>)>>),
      Fragment(<<Flag("langid")>>),
      Fragment(<<Flag("restart")>>),
      Fragment(<<Param("id", <<"1">>), Flag("shutdown")>>) }

\* createHash(params): '#', then query, page and id, each when defined.
HashAnd(h) == h \o (IF Len(h) > 1 THEN <<"&">> ELSE <<>>)
HashQuery(h, query) ==
    IF IsUndefined(query) THEN h
    ELSE HashAnd(h) \o <<"query", "=">> \o encodeURIComponent(JSString(query))
HashPageOmitted(h, page) == h
HashPage(h, page) ==
    IF IsUndefined(page) THEN h
    ELSE HashAnd(h) \o <<"page", "=">> \o JSString(page)
HashRecord(h, record) ==
    IF IsUndefined(record) THEN h
    ELSE HashAnd(h) \o <<"id", "=">> \o JSString(record)
createHash(record, query, page) ==
    HashRecord(HashPage(HashQuery(<<"#">>, query), page), record)

\* No request: parseHash has not run.
NoRequest ==
    [operation |-> "none", id |-> Undefined, query |-> Undefined,
     page |-> Undefined]

\* parseQuery(str): the object of the parameters; the last one of a name
\* wins.  A parameter without '=' is null under its own text; one with '='
\* is the decoded text between the first and the second '=' under the
\* decoded name.  Only the names parseHash reads are kept.
ParamKeys == {"id", "query", "page", "langid", "retrain", "restart", "shutdown"}
IsKey(name) == Len(name) = 1 /\ name[1] \in ParamKeys
SetParam(queryObj, name, value) ==
    IF IsKey(name) THEN [queryObj EXCEPT ![name[1]] = value] ELSE queryObj
SetPair(queryObj, param) ==
    SetParam(queryObj, decodeURIComponent(param[1]),
             Str(decodeURIComponent(param[2])))
AddParam(queryObj, param) ==
    IF IndexOf(param, "=") = 0 THEN SetParam(queryObj, param, Null)
    ELSE SetPair(queryObj, Split(param, "="))
RECURSIVE parseQueryFrom(_, _, _)
parseQueryFrom(paramArray, queryObj, i) ==
    IF i > Len(paramArray) THEN queryObj
    ELSE parseQueryFrom(paramArray, AddParam(queryObj, paramArray[i]), i + 1)
parseQuery(str) ==
    parseQueryFrom(Split(str, "&"), [k \in ParamKeys |-> Undefined], 1)

\* parseHash(): the request the fragment h encodes.  operation is "" when
\* the code leaves it undefined.
RequestOfIdFirst(q) ==
    [operation |->
         IF ~IsUndefined(q["id"]) THEN "view"
         ELSE IF ~IsUndefined(q["query"]) THEN "search"
         ELSE IF ~IsUndefined(q["langid"]) THEN "langid"
         ELSE IF ~IsUndefined(q["retrain"]) THEN "retrain"
         ELSE IF ~IsUndefined(q["restart"]) THEN "restart"
         ELSE IF ~IsUndefined(q["shutdown"]) THEN "shutdown"
         ELSE "",
     id |-> IF ~IsUndefined(q["id"]) THEN parseInt(q["id"]) ELSE Undefined,
     query |-> q["query"],
     page |-> IF ~IsUndefined(q["page"]) THEN q["page"]
              ELSE IF ~IsUndefined(q["query"]) THEN Num(1)
              ELSE Undefined]
RequestOfShutdownFirst(q) ==
    [operation |->
         IF ~IsUndefined(q["shutdown"]) THEN "shutdown"
         ELSE IF ~IsUndefined(q["restart"]) THEN "restart"
         ELSE IF ~IsUndefined(q["retrain"]) THEN "retrain"
         ELSE IF ~IsUndefined(q["langid"]) THEN "langid"
         ELSE IF ~IsUndefined(q["query"]) THEN "search"
         ELSE IF ~IsUndefined(q["id"]) THEN "view"
         ELSE "",
     id |-> IF ~IsUndefined(q["id"]) THEN parseInt(q["id"]) ELSE Undefined,
     query |-> q["query"],
     page |-> IF ~IsUndefined(q["page"]) THEN q["page"]
              ELSE IF ~IsUndefined(q["query"]) THEN Num(1)
              ELSE Undefined]
RequestOf(q) ==
    [operation |->
         IF ~IsUndefined(q["retrain"]) THEN "retrain"
         ELSE IF ~IsUndefined(q["restart"]) THEN "restart"
         ELSE IF ~IsUndefined(q["shutdown"]) THEN "shutdown"
         ELSE IF ~IsUndefined(q["langid"]) THEN "langid"
         ELSE IF ~IsUndefined(q["query"]) THEN "search"
         ELSE IF ~IsUndefined(q["id"]) THEN "view"
         ELSE "",
     id |-> IF ~IsUndefined(q["id"]) THEN parseInt(q["id"]) ELSE Undefined,
     query |-> q["query"],
     page |-> IF ~IsUndefined(q["page"]) THEN q["page"]
              ELSE IF ~IsUndefined(q["query"]) THEN Num(1)
              ELSE Undefined]
parseHash(h) ==
    IF h = <<>> \/ h = <<"#">>
    THEN [operation |-> "init", id |-> Undefined, query |-> Undefined,
          page |-> Undefined]
    ELSE RequestOf(parseQuery(IF h[1] = "#" THEN Tail(h) ELSE h))

\* parseHash() of the fragments the handlers meet, worked out once.
KnownHashes ==
    UserHashes \cup ApplyHashes
    \cup {createHash(r, q, p) : r \in {Undefined, Num(1), Str(<<"1">>), NaN},
                                q \in {Undefined, Str(<<"a">>)},
                                p \in {Undefined, Num(1)}}
ParseTable == [h \in KnownHashes |-> parseHash(h)]
ParsedHash(h) == IF h \in KnownHashes THEN ParseTable[h] ELSE parseHash(h)

\* The state the handlers of Part II work on, as one record, so that a
\* handler is the composition of the calls it makes.  lastSend starts
\* empty in every handler; threw says an exception is propagating.
Cur ==
    [sockets |-> sockets, _socket |-> _socket, _up |-> _up, wire |-> wire,
     nCalls |-> nCalls, lastSend |-> <<>>, hash |-> hash,
     _lastLoadedHash |-> _lastLoadedHash, _searchNote |-> _searchNote,
     afterShow |-> afterShow, alertDiv |-> alertDiv,
     connecting |-> connecting, view |-> view, title |-> title,
     Meta |-> Meta, navLog |-> <<>>, hashchange |-> hashchange,
     made |-> <<>>, threw |-> FALSE]

Commit(st) ==
    /\ sockets' = st.sockets
    /\ _socket' = st._socket
    /\ _up' = st._up
    /\ wire' = st.wire
    /\ nCalls' = st.nCalls
    /\ lastSend' = st.lastSend
    /\ hash' = st.hash
    /\ _lastLoadedHash' = st._lastLoadedHash
    /\ _searchNote' = st._searchNote
    /\ afterShow' = st.afterShow
    /\ alertDiv' = st.alertDiv
    /\ connecting' = st.connecting
    /\ view' = st.view
    /\ title' = st.title
    /\ Meta' = st.Meta
    /\ navLog' = st.navLog
    /\ hashchange' = st.hashchange

\* The model's bounds: a handler runs when its result stays inside them.
FitsWithin(st, maxSockets) ==
    /\ Len(st.sockets) <= maxSockets
    /\ st.nCalls <= MaxCalls
    /\ st.hashchange.queued <= MaxEvents
Fits(st) == FitsWithin(st, MaxSockets)

\* The phase of a connection, "disconnected" when there is none.
PhaseOf(socks, s) == IF s = 0 THEN "disconnected" ELSE socks[s]
Phase(st) == PhaseOf(st.sockets, st._socket)

\* initSocket(params): a new WebSocket, its four handlers, and the stored
\* host, port and callbacks; the socket it replaces is left as it is.
initSocket(st) ==
    [st EXCEPT !.sockets = Append(@, "connecting"),
               !._socket = Len(st.sockets) + 1]

\* reInitSocket(): this._socket = null; this.initSocket()
reInitSocket(st) == initSocket([st EXCEPT !._socket = 0])

\* A request object made by a request function: its number in call order,
\* its command, and the socket that was current, up and open when the
\* caller made it (0 when the connection was not open).
NewCall(st, command, args) ==
    [req |-> st.nCalls + 1, command |-> command, via |-> "direct",
     issuedOn |-> IF st._up /\ Phase(st) = "open" THEN st._socket ELSE 0,
     args |-> args]

\* The fields of a request object besides its command: start, end and record
\* of a view, the query string of a search.
NoArgs == [start |-> 0, end |-> 0, record |-> 0, query |-> <<>>]

\* What sendRequest did for a call, kept for the handler that ran it.
Logged(st, call, outcome, newSock) ==
    Append(st.lastSend, [req |-> call.req, command |-> call.command,
                         args |-> call.args, up |-> st._up,
                         phase |-> Phase(st), outcome |-> outcome,
                         newSock |-> newSock])

Frame(st, call) ==
    [sock |-> st._socket, req |-> call.req, command |-> call.command,
     via |-> call.via, issuedOn |-> call.issuedOn, args |-> call.args]

\* this._socket.send(JSON.stringify(requestArray)): the browser writes the
\* frame on an open socket, throws InvalidStateError on a connecting one
\* and discards the data on a closing or closed one.
SocketSend(st, call) ==
    IF Phase(st) = "open"
    THEN [st EXCEPT !.wire = Append(@, Frame(st, call)),
                    !.lastSend = Logged(st, call, "sent", 0)]
    ELSE IF Phase(st) = "connecting"
    THEN [st EXCEPT !.lastSend = Logged(st, call, "threw", 0),
                    !.threw = TRUE]
    ELSE [st EXCEPT !.lastSend = Logged(st, call, "lost", 0)]

\* WS.sendRequest(requestArray)
sendRequestUnshift(st, call) ==
    IF ~st._up
    THEN [reInitSocket(st) EXCEPT
              !.lastSend = Logged(st, call, "dropped", Len(st.sockets) + 1)]
    ELSE IF Phase(st) = "open"
    THEN [st EXCEPT !.wire = <<Frame(st, call)>> \o @,
                    !.lastSend = Logged(st, call, "sent", 0)]
    ELSE SocketSend(st, call)
sendRequestNoCheck(st, call) == SocketSend(st, call)
sendRequestTwice(st, call) ==
    IF ~st._up
    THEN [reInitSocket(st) EXCEPT
              !.lastSend = Logged(st, call, "dropped", Len(st.sockets) + 1)]
    ELSE SocketSend(SocketSend(st, call), call)
sendRequest(st, call) ==
    IF ~st._up
    THEN [reInitSocket(st) EXCEPT
              !.lastSend = Logged(st, call, "dropped", Len(st.sockets) + 1)]
    ELSE SocketSend(st, call)

\* A request function makes its request object; made lists the commands of
\* the request objects the handler has made.
Making(st, command) ==
    [st EXCEPT !.nCalls = @ + 1, !.made = Append(@, command)]

\* Make the request object, then WS.sendRequest(request).
SendNew(st, command, args) ==
    sendRequest(Making(st, command), NewCall(st, command, args))

\* Controller.requests.fetchMeta()
fetchMeta(st) == SendNew(st, "meta", NoArgs)

\* Config.recordsPerPage
recordsPerPage == 100

\* a % b of JavaScript for b > 0: the remainder has the sign of a.
JSRem(a, b) == IF a >= 0 THEN a % b ELSE 0 - ((0 - a) % b)

\* Controller.requests._fetchRecords(start, end, recordID): the request.
fetchRecordsArgs(start, end, recordID) ==
    [start |-> start, end |-> end, record |-> recordID, query |-> <<>>]

\* Controller.requests.fetchRecord(recordID): the page that holds recordID.
fetchRecordArgsFromZero(recordID) ==
    LET start == recordID - JSRem(recordID, recordsPerPage) + 1
        end == start + recordsPerPage - 1
    IN fetchRecordsArgs(start, end, recordID)
fetchRecordArgs(recordID) ==
    LET start == recordID - JSRem(recordID - 1, recordsPerPage)
        end == start + recordsPerPage - 1
    IN fetchRecordsArgs(start, end, recordID)
fetchRecord(st, recordID) ==
    SendNew(st, "view", fetchRecordArgs(recordID.num))

\* View.alerts.notifySearch(null, {afterShow}): a new note runs afterShow
\* once it has been shown, a note that is there runs it at once.
notifySearchShow(st, call) ==
    IF st._searchNote = "null"
    THEN [st EXCEPT !._searchNote = "open",
                    !.afterShow = @ \cup {[call EXCEPT !.via = "afterShow"]}]
    ELSE sendRequest(st, call)

\* Controller.requests.execSearch(query, page)
execSearchArgs(query, page) ==
    [NoArgs EXCEPT !.query = <<"s", "=">> \o encodeURIComponent(JSString(query))
                             \o <<"&", "p", "=">> \o JSString(page)]
execSearch(st, query, page) ==
    notifySearchShow(Making(st, "search"),
                     NewCall(st, "search", execSearchArgs(query, page)))

\* View.alerts.notifySearch(true): close the note when there is one.  It
\* closes once it has been shown, after its afterShow.
notifySearchClose(st) ==
    IF st._searchNote = "null" THEN st
    ELSE [st EXCEPT !._searchNote = "closing"]

\* View.alerts.notifySearch(false): the note, made when there is none,
\* turns into an error that closes after its timeout.
notifySearchFailed(st) == [st EXCEPT !._searchNote = "closing"]

\* _setHash, saveHash and hashRequest call each other.
RECURSIVE setHash(_, _, _, _)
RECURSIVE hashRequest(_)

\* Controller.nav.saveHash(params)
saveHash(st, record, query, page, noLoad, forceLoad) ==
    setHash(st, createHash(record, query, page), noLoad, forceLoad)

\* The statements after a send run when it has not thrown: saveHash with
\* noLoad and the given record.
ThenSaveHash(st, record) ==
    IF st.threw THEN st
    ELSE saveHash(st, record, Undefined, Undefined, TRUE, FALSE)

\* Controller.requests.requestUpdate / execLangID / execRetrain /
\* execRestart / execShutdown
requestUpdate(st, rowid) ==
    ThenSaveHash(SendNew(st, "update", NoArgs), rowid)
execLangIDAndLoad(st, rowid) ==
    saveHash(SendNew(st, "langid", NoArgs), rowid, Undefined, Undefined,
             FALSE, FALSE)
execLangID(st, rowid) == ThenSaveHash(SendNew(st, "langid", NoArgs), rowid)
execRetrain(st) == ThenSaveHash(SendNew(st, "retrain", NoArgs), Undefined)
execRestart(st) == ThenSaveHash(SendNew(st, "restart", NoArgs), Undefined)
execShutdown(st) == ThenSaveHash(SendNew(st, "shutdown", NoArgs), Undefined)

\* document.title as updateTitle makes it from a request: the operation and
\* the text that follows the prefix.
TitleOf(req) ==
    [operation |-> req.operation,
     text |-> CASE req.operation \in {"view", "langid"} -> JSString(req.id)
                [] req.operation = "search" ->
                       JSString(req.query) \o <<", page ">> \o JSString(req.page)
                [] OTHER -> <<>>]

\* Controller.nav.updateTitle(): no branch for an undefined operation.
SetTitleNever(st, req) == st
SetTitle(st, req) ==
    IF req.operation = "" THEN st ELSE [st EXCEPT !.title = TitleOf(req)]
updateTitle(st) == SetTitle(st, ParsedHash(st.hash))

\* What a call leaves as it was of the state besides the fragment, the last
\* loaded hash and the title.
KeptBut(before, after) ==
    /\ after.sockets = before.sockets
    /\ after._socket = before._socket
    /\ after._up = before._up
    /\ after.wire = before.wire
    /\ after.nCalls = before.nCalls
    /\ after.lastSend = before.lastSend
    /\ after._searchNote = before._searchNote
    /\ after.afterShow = before.afterShow
    /\ after.alertDiv = before.alertDiv
    /\ after.connecting = before.connecting
    /\ after.view = before.view
    /\ after.Meta = before.Meta
    /\ after.threw = before.threw

\* One call of _setHash or hashRequest, for navLog: its parameters, whether
\* newHash was the last loaded hash, the request hashRequest parsed, the
\* commands of the request objects made during the call, the fragment, the
\* last loaded hash and whether an exception is propagating at its end,
\* and whether the call left the rest of the state as it was.
NavEntry(fn, newHash, noLoad, forceLoad, same, req, before, after) ==
    [fn |-> fn, newHash |-> newHash, noLoad |-> noLoad,
     forceLoad |-> forceLoad, same |-> same, request |-> req,
     made |-> SubSeq(after.made, Len(before.made) + 1, Len(after.made)),
     hashAfter |-> after.hash, lastAfter |-> after._lastLoadedHash,
     threw |-> after.threw, kept |-> KeptBut(before, after)]
LogNav(fn, newHash, noLoad, forceLoad, same, req, before, after) ==
    [after EXCEPT !.navLog =
         Append(@, NavEntry(fn, newHash, noLoad, forceLoad, same, req,
                            before, after))]

\* Controller.nav.hashRequest()
DispatchFromZero(st, req) ==
    CASE req.operation = "init" -> fetchRecord(st, Num(0))
      [] req.operation = "view" ->
             IF Truthy(req.id) THEN fetchRecord(st, req.id) ELSE st
      [] req.operation = "search" -> execSearch(st, req.query, req.page)
      [] req.operation = "langid" -> execLangID(st, req.id)
      [] req.operation = "retrain" -> execRetrain(st)
      [] req.operation = "restart" -> execRestart(st)
      [] req.operation = "shutdown" -> execShutdown(st)
      [] OTHER -> st
Dispatch(st, req) ==
    CASE req.operation = "init" -> fetchRecord(st, Num(1))
      [] req.operation = "view" ->
             IF Truthy(req.id) THEN fetchRecord(st, req.id) ELSE st
      [] req.operation = "search" -> execSearch(st, req.query, req.page)
      [] req.operation = "langid" -> execLangID(st, req.id)
      [] req.operation = "retrain" -> execRetrain(st)
      [] req.operation = "restart" -> execRestart(st)
      [] req.operation = "shutdown" -> execShutdown(st)
      [] OTHER -> st
\* The fragment hashRequest runs on is kept when the events are followed.
Loading(st) ==
    IF st.hashchange.on THEN [st EXCEPT !.hashchange.loaded = st.hash] ELSE st
hashRequestOf(st, req) ==
    LogNav("hashRequest", st.hash, FALSE, FALSE, FALSE, req, st,
           Dispatch(SetTitle(Loading(st), req), req))
hashRequest(st) == hashRequestOf(st, ParsedHash(st.hash))

\* location.hash = newHash: the browser queues a hashchange event when the
\* fragment changes.
Queued(st, newHash) ==
    IF st.hashchange.on /\ newHash # st.hash
    THEN [st.hashchange EXCEPT !.queued = @ + 1]
    ELSE st.hashchange

\* Controller.nav._setHash({newHash, noLoad, forceLoad})
setHashAndLoad(st, newHash, noLoad, forceLoad) ==
    LET same == ~st._lastLoadedHash.isNull /\ newHash = st._lastLoadedHash.hash
        s1 == [st EXCEPT !.hash = newHash,
                         !.hashchange = Queued(st, newHash),
                         !._lastLoadedHash = [isNull |-> FALSE,
                                              hash |-> newHash]]
        s2 == IF same
              THEN IF forceLoad THEN hashRequest(st) ELSE st
              ELSE hashRequest(s1)
    IN LogNav("_setHash", newHash, noLoad, forceLoad, same, NoRequest, st, s2)
setHashUnforced(st, newHash, noLoad, forceLoad) ==
    LET same == ~st._lastLoadedHash.isNull /\ newHash = st._lastLoadedHash.hash
        s1 == [st EXCEPT !.hash = newHash,
                         !.hashchange = Queued(st, newHash),
                         !._lastLoadedHash = [isNull |-> FALSE,
                                              hash |-> newHash]]
        s2 == IF same THEN st
              ELSE IF ~noLoad THEN hashRequest(s1) ELSE updateTitle(s1)
    IN LogNav("_setHash", newHash, noLoad, forceLoad, same, NoRequest, st, s2)
setHashForgets(st, newHash, noLoad, forceLoad) ==
    LET same == ~st._lastLoadedHash.isNull /\ newHash = st._lastLoadedHash.hash
        s1 == [st EXCEPT !.hash = newHash,
                         !.hashchange = Queued(st, newHash)]
        s2 == IF same
              THEN IF forceLoad THEN hashRequest(st) ELSE st
              ELSE IF ~noLoad THEN hashRequest(s1) ELSE updateTitle(s1)
    IN LogNav("_setHash", newHash, noLoad, forceLoad, same, NoRequest, st, s2)
setHash(st, newHash, noLoad, forceLoad) ==
    LET same == ~st._lastLoadedHash.isNull /\ newHash = st._lastLoadedHash.hash
        s1 == [st EXCEPT !.hash = newHash,
                         !.hashchange = Queued(st, newHash),
                         !._lastLoadedHash = [isNull |-> FALSE,
                                              hash |-> newHash]]
        s2 == IF same
              THEN IF forceLoad THEN hashRequest(st) ELSE st
              ELSE IF ~noLoad THEN hashRequest(s1) ELSE updateTitle(s1)
    IN LogNav("_setHash", newHash, noLoad, forceLoad, same, NoRequest, st, s2)

\* Controller.nav.jumpRecord(recordID)
jumpRecord(st, recordID) ==
    IF Truthy(parseInt(recordID))
    THEN saveHash(st, parseInt(recordID), Undefined, Undefined, FALSE, FALSE)
    ELSE st

\* Controller.nav.search(query, page)
search(st, query, page) ==
    IF query # Str(<<>>)
    THEN saveHash(st, Undefined, query, page, FALSE, TRUE)
    ELSE st

\* Controller.nav.jumpPage(pageID): pageID after parseInt, and the request
\* parsed from the fragment.
jumpPageOf(st, pageID, req) ==
    IF ~Truthy(pageID) THEN st
    ELSE IF req.operation = "view"
    THEN jumpRecord(st, Num((pageID.num - 1) * recordsPerPage + 1))
    ELSE IF req.operation = "search" THEN search(st, req.query, pageID)
    ELSE st
jumpPage(st, pageID) == jumpPageOf(st, parseInt(pageID), ParsedHash(st.hash))

\* View.alerts.showReconnect(wasError): nothing when the alert is in the
\* page; else the alert is shown and $.noty.closeAll() closes the notes.
showReconnectNever(st) == st
showReconnect(st) ==
    IF st.alertDiv # "none" THEN st
    ELSE notifySearchClose([st EXCEPT !.alertDiv = "shown"])

\* View.alerts.removeReconnect(): the alert slides up, then is removed.
removeReconnect(st) ==
    IF st.alertDiv = "shown" THEN [st EXCEPT !.alertDiv = "slidingUp"] ELSE st

\* The decoded messages the server sends: kind "error" has data.error ===
\* true, "fail" is a search whose results are "error" or an update that is
\* not "success"; a search result carries its query and its offset, the
\* number of results that come before its first one.
\* total and tags are data.total and data.tags of a meta, data.total of a
\* search.
MetaMsg(command, kind, query, offset, total, tags) ==
    [command |-> command, kind |-> kind, query |-> query, offset |-> offset,
     total |-> total, tags |-> tags]
Msg(command, kind, query, offset) ==
    MetaMsg(command, kind, query, offset, 0, {})

\* The messages of a server whose corpus is empty.
Messages ==
    { Msg("meta", "ok", Undefined, Undefined),
      Msg("view", "ok", Undefined, Undefined),
      Msg("update", "ok", Undefined, Undefined),
      Msg("search", "ok", Str(<<"a">>), Num(0)),
      Msg("search", "fail", Undefined, Undefined) }

\* The messages of a server with records and tags, the answers to langid and
\* retrain, a command the client has no handler for, and failures.
MetaMessages ==
    { MetaMsg("meta", "ok", Undefined, Undefined, 1, {"t1"}),
      MetaMsg("meta", "ok", Undefined, Undefined, 2, {"t1", "t2"}),
      MetaMsg("meta", "error", Undefined, Undefined, 2, {"t1"}),
      MetaMsg("view", "error", Undefined, Undefined, 2, {"t1"}),
      MetaMsg("search", "error", Str(<<"a">>), Num(0), 2, {"t1"}),
      MetaMsg("view", "ok", Undefined, Undefined, 2, {"t2"}),
      MetaMsg("search", "ok", Str(<<"a">>), Num(0), 1, {"t2"}),
      MetaMsg("search", "fail", Undefined, Undefined, 2, {"t2"}),
      MetaMsg("update", "ok", Undefined, Undefined, 2, {"t2"}),
      MetaMsg("update", "fail", Undefined, Undefined, 2, {"t2"}),
      MetaMsg("langid", "ok", Undefined, Undefined, 2, {"t2"}),
      MetaMsg("retrain", "ok", Undefined, Undefined, 2, {"t2"}),
      MetaMsg("debug", "ok", Undefined, Undefined, 2, {"t2"}) }

\* Content.processor.commandMeta(msg)
commandMeta(st, msg) ==
    [st EXCEPT !.Meta.totalRecords = msg.total,
               !.Meta.tagsAvailable = msg.tags]

\* Math.floor(msg.data.offset / Config.recordsPerPage) + 1
pageOfOffsetFromZero(offset) ==
    IF IsNum(offset) THEN Num(offset.num \div recordsPerPage) ELSE NaN
pageOfOffset(offset) ==
    IF IsNum(offset) THEN Num((offset.num \div recordsPerPage) + 1) ELSE NaN

\* Content.processor.commandSearch(msg)
commandSearchReload(st, msg) ==
    IF msg.kind = "fail"
    THEN saveHash(notifySearchFailed(st), Undefined, Undefined, Undefined,
                  FALSE, FALSE)
    ELSE notifySearchClose(
             [saveHash([st EXCEPT !.Meta.totalSearch = msg.total],
                       Undefined, msg.query, pageOfOffset(msg.offset),
                       TRUE, FALSE)
                  EXCEPT !.view = "rows"])
commandSearch(st, msg) ==
    IF msg.kind = "fail"
    THEN saveHash(notifySearchFailed(st), Undefined, Undefined, Undefined,
                  TRUE, FALSE)
    ELSE notifySearchClose(
             [saveHash([st EXCEPT !.Meta.totalSearch = msg.total],
                       Undefined, msg.query, pageOfOffset(msg.offset),
                       TRUE, FALSE)
                  EXCEPT !.view = "rows"])

\* Content.processor.commandView(msg)
commandViewSetsTotal(st, msg) ==
    [st EXCEPT !.view = "rows", !.Meta.totalRecords = msg.total]
commandView(st, msg) == [st EXCEPT !.view = "rows"]

\* Content.processor.commandUpdate(msg)
commandUpdate(st, msg) == IF msg.kind = "ok" THEN fetchMeta(st) ELSE st

\* Content.processor.processMessage(msg)
processMessage(st, msg) ==
    LET s1 == removeReconnect(st)
    IN IF msg.kind = "error" THEN s1
       ELSE CASE msg.command = "meta" -> commandMeta(s1, msg)
              [] msg.command = "search" -> commandSearch(s1, msg)
              [] msg.command = "update" -> commandUpdate(s1, msg)
              [] msg.command = "view" -> commandView(s1, msg)
              [] OTHER -> s1

\* No fragment: hashRequest has not run.  The events are followed or not
\* from the start.
NotLoaded == <<"none">>
EventsOff == [on |-> FALSE, queued |-> 0, loaded |-> NotLoaded]
EventsOn == [on |-> TRUE, queued |-> 0, loaded |-> NotLoaded]

WSInit ==
    /\ sockets = <<>>
    /\ _socket = 0
    /\ _up = FALSE
    /\ wire = <<>>
    /\ nCalls = 0
    /\ lastSend = <<>>
    /\ _lastLoadedHash = [isNull |-> TRUE, hash |-> EmptyFragment]
    /\ _searchNote = "null"
    /\ afterShow = {}
    /\ alertDiv = "none"
    /\ connecting = 0
    /\ view = "none"
    /\ title = [operation |-> "init", text |-> <<>>]
    /\ Meta = [totalRecords |-> 0, totalSearch |-> 0, tagsAvailable |-> {}]
    /\ navLog = <<>>

\* The application starts: WS.initSocket with the host, the port and the
\* four callbacks.
AppInitSocket ==
    /\ Len(sockets) = 0
    /\ Commit(initSocket(Cur))
    /\ UNCHANGED <<corrVars, navVars, codecVars, gridVars>>

\* socket.onopen of the socket s: _up = true, then the onOpen callback:
\* fetchMeta() and hashRequest().
WSOpenWithin(s, maxSockets) ==
    /\ sockets[s] = "connecting"
    /\ LET s0 == [Cur EXCEPT !.sockets[s] = "open", !._up = TRUE]
           s1 == fetchMeta(s0)
           s2 == IF s1.threw THEN s1 ELSE hashRequest(s1)
       IN FitsWithin(s2, maxSockets) /\ Commit(s2)
    /\ UNCHANGED <<corrVars, navVars, codecVars, gridVars>>
WSOpen(s) == WSOpenWithin(s, MaxSockets)

\* socket.onerror of the socket s: _up = false, then showReconnect(true).
WSError(s) ==
    /\ sockets[s] \in {"connecting", "open"}
    /\ Commit(showReconnect([Cur EXCEPT !.sockets[s] = "errored",
                                        !._up = FALSE]))
    /\ UNCHANGED <<corrVars, navVars, codecVars, gridVars>>

\* socket.onclose of the socket s: _up = false, then showReconnect().
WSClose(s) ==
    /\ sockets[s] \in {"open", "errored"}
    /\ Commit(showReconnect([Cur EXCEPT !.sockets[s] = "closed",
                                        !._up = FALSE]))
    /\ UNCHANGED <<corrVars, navVars, codecVars, gridVars>>

\* socket.onmessage of the socket s with a frame that decodes to msg.
WSMessage(s, msg) ==
    /\ sockets[s] = "open"
    /\ LET s1 == processMessage(Cur, msg)
       IN Fits(s1) /\ Commit(s1)
    /\ UNCHANGED <<corrVars, navVars, codecVars, gridVars>>

\* The search note has been shown: its afterShow sends the request.
NotyAfterShowWithin(call, maxSockets) ==
    /\ call \in afterShow
    /\ LET s1 == sendRequest([Cur EXCEPT !.afterShow = @ \ {call}], call)
       IN FitsWithin(s1, maxSockets) /\ Commit(s1)
    /\ UNCHANGED <<corrVars, navVars, codecVars, gridVars>>
NotyAfterShow(call) == NotyAfterShowWithin(call, MaxSockets)

\* The note has closed: its onClose sets _searchNote to null.
NotyOnClose ==
    /\ _searchNote = "closing"
    /\ afterShow = {}
    /\ Commit([Cur EXCEPT !._searchNote = "null"])
    /\ UNCHANGED <<corrVars, navVars, codecVars, gridVars>>

\* The reconnect alert has slid up and is removed from the page.
AlertRemoved ==
    /\ alertDiv = "slidingUp"
    /\ Commit([Cur EXCEPT !.alertDiv = "none"])
    /\ UNCHANGED <<corrVars, navVars, codecVars, gridVars>>

\* A click on the alert's Reconnect button: the alert slides up and
\* showConnecting is given reInitSocket as its complete callback.
ClickReconnect ==
    /\ alertDiv = "shown"
    /\ Len(sockets) + connecting < MaxSockets
    /\ Commit([Cur EXCEPT !.alertDiv = "slidingUp", !.connecting = @ + 1])
    /\ UNCHANGED <<corrVars, navVars, codecVars, gridVars>>

\* The connecting alert has slid down: complete runs WS.reInitSocket().
ConnectingComplete ==
    /\ connecting > 0
    /\ LET s1 == reInitSocket([Cur EXCEPT !.connecting = @ - 1])
       IN Fits(s1) /\ Commit(s1)
    /\ UNCHANGED <<corrVars, navVars, codecVars, gridVars>>

\* The user changes the fragment: the hashchange handler is _setHash
\* without newHash, noLoad and forceLoad.
UserHashChangeWithin(h, maxSockets) ==
    /\ Len(sockets) > 0
    /\ h # hash
    /\ LET s1 == setHash([Cur EXCEPT !.hash = h], h, FALSE, FALSE)
       IN FitsWithin(s1, maxSockets) /\ Commit(s1)
    /\ UNCHANGED <<corrVars, navVars, codecVars, gridVars>>
UserHashChange(h) == UserHashChangeWithin(h, MaxSockets)

\* The search box is submitted: Controller.nav.search(query).
UserSearch(query) ==
    /\ Len(sockets) > 0
    /\ query # Str(<<>>)
    /\ LET s1 == saveHash(Cur, Undefined, query, Num(1), FALSE, TRUE)
       IN Fits(s1) /\ Commit(s1)
    /\ UNCHANGED <<corrVars, navVars, codecVars, gridVars>>

\* A field of a displayed record is edited:
\* Controller.requests.requestUpdate.
UserUpdate(rowid) ==
    /\ view = "rows"
    /\ LET s1 == requestUpdate(Cur, rowid)
       IN Fits(s1) /\ Commit(s1)
    /\ UNCHANGED <<corrVars, navVars, codecVars, gridVars>>

\* The record box and the page box are submitted: Controller.nav.jumpRecord
\* and Controller.nav.jumpPage with the text of the box.
UserJumpRecord(box) ==
    /\ Len(sockets) > 0
    /\ LET s1 == jumpRecord(Cur, box)
       IN Fits(s1) /\ Commit(s1)
    /\ UNCHANGED <<corrVars, navVars, codecVars, gridVars>>
UserJumpPage(box) ==
    /\ Len(sockets) > 0
    /\ LET s1 == jumpPage(Cur, box)
       IN Fits(s1) /\ Commit(s1)
    /\ UNCHANGED <<corrVars, navVars, codecVars, gridVars>>

\* The browser delivers a hashchange event of a fragment the code has set:
\* the handler is _setHash with the event, newHash is getHash().
HashChangeEvent ==
    /\ hashchange.queued > 0
    /\ LET s1 == setHash([Cur EXCEPT !.hashchange.queued = @ - 1], hash,
                         FALSE, FALSE)
       IN Fits(s1) /\ Commit(s1)
    /\ UNCHANGED <<corrVars, navVars, codecVars, gridVars>>

WSNext ==
    \/ AppInitSocket
    \/ \E s \in DOMAIN sockets : WSOpen(s)
    \/ \E s \in DOMAIN sockets : WSError(s)
    \/ \E s \in DOMAIN sockets : WSClose(s)
    \/ \E s \in DOMAIN sockets : \E msg \in Messages : WSMessage(s, msg)
    \/ \E call \in afterShow : NotyAfterShow(call)
    \/ NotyOnClose
    \/ AlertRemoved
    \/ ClickReconnect
    \/ ConnectingComplete
    \/ \E h \in UserHashes : UserHashChange(h)
    \/ UserSearch(Str(<<"a">>))
    \/ UserUpdate(Str(<<"1">>))

\* The navigation on its own: the connection is made and opens, the user
\* types fragments and submits the search box.
ApplyNext ==
    \/ AppInitSocket
    \/ \E s \in DOMAIN sockets : WSOpen(s)
    \/ \E call \in afterShow : NotyAfterShow(call)
    \/ \E h \in ApplyHashes : UserHashChange(h)
    \/ \E q \in {<<"a">>, <<"a", "&", "b">>, <<>>} : UserSearch(Str(q))

\* The inbound dispatch on its own: the connection, the messages of
\* MetaMessages, the alerts and the edits.
MetaNext ==
    \/ AppInitSocket
    \/ \E s \in DOMAIN sockets : WSOpen(s)
    \/ \E s \in DOMAIN sockets : WSError(s)
    \/ \E s \in DOMAIN sockets : WSClose(s)
    \/ \E s \in DOMAIN sockets : \E msg \in MetaMessages : WSMessage(s, msg)
    \/ NotyOnClose
    \/ AlertRemoved
    \/ ClickReconnect
    \/ ConnectingComplete
    \/ UserUpdate(Str(<<"1">>))

\* The fragments the page is opened with when the boxes are looked at: the
\* initial view, a view and a search.
BrowseHashes ==
    { EmptyFragment,
      Fragment(<<Param("id", <<"1">>)>>),
      Fragment(<<Param("query", <<"a">>), Param("page", <<"1">>)>>) }

\* The answers of the server: the rows of a view, the first results of the
\* search for "a", and the second hundred of a search the server has
\* rewritten to "b".
BrowseMessages ==
    { MetaMsg("view", "ok", Undefined, Undefined, 0, {}),
      MetaMsg("search", "ok", Str(<<"a">>), Num(0), 1, {}),
      MetaMsg("search", "ok", Str(<<"b">>), Num(recordsPerPage), 2, {}) }

\* The navigation by the boxes, with the hashchange events of the fragments
\* the code sets.
BrowseNext ==
    \/ AppInitSocket
    \/ \E s \in DOMAIN sockets : WSOpen(s)
    \/ \E s \in DOMAIN sockets : \E msg \in BrowseMessages : WSMessage(s, msg)
    \/ \E call \in afterShow : NotyAfterShow(call)
    \/ NotyOnClose
    \/ UserJumpRecord(Str(<<"1">>))
    \/ \E box \in {<<"1">>, <<"2">>} : UserJumpPage(Str(box))
    \/ UserSearch(Str(<<"a">>))
    \/ HashChangeEvent

\* The fragments the user moves between while the reconnects are followed:
\* a view and a search.
ReconnectHashes ==
    { Fragment(<<Param("id", <<"1">>)>>),
      Fragment(<<Param("query", <<"a">>), Param("page", <<"1">>)>>) }

\* The reconnects that sendRequest starts: the connection is made, opens,
\* fails and closes, the user moves between the fragments of
\* ReconnectHashes, and up to MaxReconnects sockets are made.
ReconnectNext ==
    \/ AppInitSocket
    \/ \E s \in DOMAIN sockets : WSOpenWithin(s, MaxReconnects)
    \/ \E s \in DOMAIN sockets : WSError(s)
    \/ \E s \in DOMAIN sockets : WSClose(s)
    \/ \E call \in afterShow : NotyAfterShowWithin(call, MaxReconnects)
    \/ \E h \in ReconnectHashes : UserHashChangeWithin(h, MaxReconnects)

(***************************************************************************)
(* Part III: the navigation functions of controller.nav.js and the page     *)
(* computation of controller.requests.js, applied on their own to inputs    *)
(* drawn from bounded sets.                                                 *)
(***************************************************************************)
\* The queries: the strings of at most MaxQueryLen of these characters.
QueryChars == {"a", "b", "&", "=", "%"}
Queries == UNION {[1..n -> QueryChars] : n \in 0..MaxQueryLen}

\* The navigation states that have a fragment: view and search.
ViewState(id) ==
    [operation |-> "view", id |-> Num(id), query |-> Undefined,
     page |-> Undefined]
SearchState(query, page) ==
    [operation |-> "search", id |-> Undefined, query |-> Str(query),
     page |-> Num(page)]
NavStates ==
    {ViewState(id) : id \in 1..MaxRecordID}
    \cup {SearchState(q, p) : q \in Queries, p \in 1..MaxPage}

\* The fragments of the grammar: '', '#', and '#' with up to MaxParams of
\* id=<int>, query=<percent-encoded string>, page=<int> and the flags.
GrammarParams ==
    { Param("id", <<"7">>), Param("id", <<"0", "7">>),
      Param("id", <<"2", "5", "1">>), Param("id", <<"0">>),
      Param("query", <<"a">>), Param("query", <<"%26", "b">>),
      Param("query", <<"%61">>), Param("query", <<>>),
      Param("query", <<"%25", "2", "6">>),
      Param("page", <<"2">>), Param("page", <<"0", "2">>),
      Flag("langid"), Flag("retrain"), Flag("restart"), Flag("shutdown") }
GrammarFragments ==
    {<<>>} \cup {Fragment(ps) :
                    ps \in UNION {[1..n -> GrammarParams] : n \in 0..MaxParams}}

\* The fragment the code makes for a request: jumpRecord and the pager for a
\* view, search for a search, execLangID for a langid, and for the others the
\* reset fragment that saveHash makes without record, query and page.
renderHash(req) ==
    CASE req.operation \in {"view", "langid"} ->
             createHash(req.id, Undefined, Undefined)
      [] req.operation = "search" -> createHash(Undefined, req.query, req.page)
      [] OTHER -> createHash(Undefined, Undefined, Undefined)

\* pagerUpdate's link of a page in view mode: the fragment of the first
\* record of the page.
pagerLink(page) ==
    createHash(Num((page - 1) * recordsPerPage + 1), Undefined, Undefined)
PagerLinks == {pagerLink(p) : p \in 1..(MaxPage + 1)}

\* commandView's currentPage for a response whose first row has rowid.
currentPageFromZero(rowid) == rowid \div recordsPerPage
currentPage(rowid) == (rowid \div recordsPerPage) + 1

\* The rowid of the first row of the response to a view request: the
\* server answers with the rows start..end, the first of them first.
firstRowid(req) == req.start

NoPager == [mode |-> "none", currentPage |-> 0]

NavIdle ==
    /\ fragment = <<>>
    /\ request = NoRequest
    /\ origin = NoRequest
    /\ rendered = <<>>
    /\ window = NoArgs
    /\ pager = NoPager

NavInit ==
    /\ rendered = <<>>
    /\ window = NoArgs
    /\ pager = NoPager
    /\ \/ /\ origin = NoRequest
          /\ request = NoRequest
          /\ fragment \in GrammarFragments \cup PagerLinks
       \/ /\ origin \in NavStates
          /\ request = origin
          /\ fragment = <<>>

\* Controller.nav.parseHash() on the fragment.
NavParse ==
    /\ request = NoRequest
    /\ Len(rendered) < 2
    /\ request' = parseHash(fragment)
    /\ UNCHANGED <<fragment, origin, rendered, window, pager, corrVars, wsVars, codecVars, gridVars>>

\* The fragment made for the request becomes the location fragment.
NavRender ==
    /\ request # NoRequest
    /\ Len(rendered) < 2
    /\ fragment' = renderHash(request)
    /\ rendered' = Append(rendered, fragment')
    /\ request' = NoRequest
    /\ UNCHANGED <<origin, window, pager, corrVars, wsVars, codecVars, gridVars>>

\* hashRequest's branch for a view: fetchRecord(request.id) when the id is
\* truthy.
NavFetchRecord ==
    /\ request.operation = "view"
    /\ Truthy(request.id)
    /\ window = NoArgs
    /\ window' = fetchRecordArgs(request.id.num)
    /\ UNCHANGED <<fragment, request, origin, rendered, pager, corrVars, wsVars, codecVars, gridVars>>

\* The response to the view request is processed: commandView gives
\* pagerUpdate the page it works out from the rowid of the first row.
NavView ==
    /\ window # NoArgs
    /\ pager = NoPager
    /\ pager' = [mode |-> "view", currentPage |-> currentPage(firstRowid(window))]
    /\ UNCHANGED <<fragment, request, origin, rendered, window, corrVars, wsVars, codecVars, gridVars>>

NavNext == NavParse \/ NavRender \/ NavFetchRecord \/ NavView

(***************************************************************************)
(* Part IV: the frame codec.  The inbound pipeline of socket.onmessage     *)
(* (websocket.js) and of b64Inflate with JSON.parse (part_002): atob,      *)
(* charCodeAt, pako.inflate, String.fromCharCode, JSON.parse.  The server  *)
(* side that wraps a message is not among the sources; it is modelled      *)
(* from the specification: serialise, compress, text-safe encode.          *)
(* Characters and bytes are numbers: the code of the character, the value  *)
(* of the byte.                                                            *)
(***************************************************************************)

\* The characters of a text: a, the double quote, e with acute accent
\* (U+00E9) and a CJK character (U+4E2D).
TextChars == {97, 34, 233, 20013}

RECURSIVE TextsOf(_)
TextsOf(n) ==
    IF n = 0 THEN {<<>>}
    ELSE TextsOf(n - 1)
         \cup {Append(t, c) : t \in {u \in TextsOf(n - 1) : Len(u) = n - 1},
                              c \in TextChars}

\* The commands, as their characters: meta, view.
CommandNames == {<<109, 101, 116, 97>>, <<118, 105, 101, 119>>}

\* The application messages {command, data}, data being a text.
AppMessages == [command : CommandNames, data : TextsOf(MaxText)]

\* The character of a hexadecimal digit.
HexChar(d) == IF d < 10 THEN 48 + d ELSE 87 + d

\* A character inside a JSON string as the serialiser writes it: the quote
\* and the backslash are escaped; a character outside ASCII is written as
\* \uXXXX by a serialiser that escapes and as itself by one that does not.
JSONChar(c, esc) ==
    IF c = 34 THEN <<92, 34>>
    ELSE IF c = 92 THEN <<92, 92>>
    ELSE IF c > 127 /\ esc
    THEN <<92, 117, HexChar(c \div 4096), HexChar((c \div 256) % 16),
           HexChar((c \div 16) % 16), HexChar(c % 16)>>
    ELSE <<c>>

RECURSIVE JSONChars(_, _)
JSONChars(text, esc) ==
    IF text = <<>> THEN <<>>
    ELSE JSONChar(Head(text), esc) \o JSONChars(Tail(text), esc)

\* The pieces of the serialised message: {"command":" and ","data":" and "}
JSONOpen == <<123, 34, 99, 111, 109, 109, 97, 110, 100, 34, 58, 34>>
JSONMid == <<34, 44, 34, 100, 97, 116, 97, 34, 58, 34>>
JSONClose == <<34, 125>>

\* Serialise: the JSON text of the message.
Serialize(m, esc) ==
    JSONOpen \o JSONChars(m.command, esc) \o JSONMid \o JSONChars(m.data, esc)
    \o JSONClose

\* The bytes of a text in UTF-8 (characters up to U+FFFF).
UTF8Char(c) ==
    IF c < 128 THEN <<c>>
    ELSE IF c < 2048 THEN <<192 + (c \div 64), 128 + (c % 64)>>
    ELSE <<224 + (c \div 4096), 128 + ((c \div 64) % 64), 128 + (c % 64)>>

RECURSIVE UTF8(_)
UTF8(text) ==
    IF text = <<>> THEN <<>> ELSE UTF8Char(Head(text)) \o UTF8(Tail(text))

\* The Adler-32 sums of a zlib stream: a and b after the bytes from i on.
RECURSIVE AdlerFrom(_, _, _, _)
AdlerFrom(bytes, i, a, b) ==
    IF i > Len(bytes) THEN <<a, b>>
    ELSE AdlerFrom(bytes, i + 1, (a + bytes[i]) % 65521,
                   (b + ((a + bytes[i]) % 65521)) % 65521)

\* The checksum as the four bytes that end the stream.
Adler32(bytes) ==
    LET s == AdlerFrom(bytes, 1, 1, 0)
    IN <<s[2] \div 256, s[2] % 256, s[1] \div 256, s[1] % 256>>

\* Compress: a zlib stream of the bytes, as zlib writes it at level 0: the
\* header, one stored block (final, LEN, its complement, the bytes) and the
\* checksum.
Deflate(bytes) ==
    <<120, 1, 1, Len(bytes) % 256, Len(bytes) \div 256,
      255 - (Len(bytes) % 256), 255 - (Len(bytes) \div 256)>>
    \o bytes \o Adler32(bytes)

\* The character of a base64 digit; 61 is the padding "=".
B64Char(d) ==
    IF d < 26 THEN 65 + d
    ELSE IF d < 52 THEN 71 + d
    ELSE IF d < 62 THEN d - 4
    ELSE IF d = 62 THEN 43 ELSE 47

\* Text-safe encode: base64 of the bytes.
RECURSIVE Base64(_)
Base64(bytes) ==
    IF bytes = <<>> THEN <<>>
    ELSE IF Len(bytes) = 1
    THEN <<B64Char(bytes[1] \div 4), B64Char((bytes[1] % 4) * 16), 61, 61>>
    ELSE IF Len(bytes) = 2
    THEN <<B64Char(bytes[1] \div 4),
           B64Char((bytes[1] % 4) * 16 + (bytes[2] \div 16)),
           B64Char((bytes[2] % 16) * 4), 61>>
    ELSE <<B64Char(bytes[1] \div 4),
           B64Char((bytes[1] % 4) * 16 + (bytes[2] \div 16)),
           B64Char((bytes[2] % 16) * 4 + (bytes[3] \div 64)),
           B64Char(bytes[3] % 64)>>
         \o Base64(SubSeq(bytes, 4, Len(bytes)))

\* The transport-wrapped form of a message.
transportWrap(m, esc) == Base64(Deflate(UTF8(Serialize(m, esc))))

\* What a stage of the pipeline returns: its value, or the exception.
Returned(value) == [ok |-> TRUE, value |-> value, error |-> "none"]
Thrown(error) == [ok |-> FALSE, value |-> <<>>, error |-> error]

\* The digit of a base64 character, -1 when it is none.
B64Digit(c) ==
    IF c >= 65 /\ c <= 90 THEN c - 65
    ELSE IF c >= 97 /\ c <= 122 THEN c - 71
    ELSE IF c >= 48 /\ c <= 57 THEN c + 4
    ELSE IF c = 43 THEN 62
    ELSE IF c = 47 THEN 63
    ELSE 0 - 1

\* atob: the padding at the end of a text of 4n characters is removed, a
\* text of 4n + 1 digits or with a character that is no digit throws, the
\* digits make the bytes four by four and the bits left over are dropped.
Unpadded(text) ==
    IF Len(text) % 4 = 0 /\ Len(text) > 0 /\ text[Len(text)] = 61
    THEN IF text[Len(text) - 1] = 61
         THEN SubSeq(text, 1, Len(text) - 2)
         ELSE SubSeq(text, 1, Len(text) - 1)
    ELSE text

RECURSIVE B64Bytes(_)
B64Bytes(digits) ==
    IF Len(digits) < 2 THEN <<>>
    ELSE IF Len(digits) = 2
    THEN <<digits[1] * 4 + (digits[2] \div 16)>>
    ELSE IF Len(digits) = 3
    THEN <<digits[1] * 4 + (digits[2] \div 16),
           (digits[2] % 16) * 16 + (digits[3] \div 4)>>
    ELSE <<digits[1] * 4 + (digits[2] \div 16),
           (digits[2] % 16) * 16 + (digits[3] \div 4),
           (digits[3] % 4) * 64 + digits[4]>>
         \o B64Bytes(SubSeq(digits, 5, Len(digits)))

atobOf(text) ==
    IF Len(text) % 4 = 1 \/ \E i \in DOMAIN text : B64Digit(text[i]) < 0
    THEN Thrown("InvalidCharacterError")
    ELSE Returned(B64Bytes([i \in DOMAIN text |-> B64Digit(text[i])]))
atob(text) == atobOf(Unpadded(text))

\* pako.inflate of a zlib stream with one stored block: the header, the
\* block header and the checksum are verified; a stream that fails throws.
inflateUnchecked(bin) ==
    IF Len(bin) < 11 THEN Thrown("inflate")
    ELSE Returned(SubSeq(bin, 8, Len(bin) - 4))
inflate(bin) ==
    IF Len(bin) < 11 THEN Thrown("inflate")
    ELSE IF \/ bin[1] % 16 # 8
            \/ (bin[1] * 256 + bin[2]) % 31 # 0
    THEN Thrown("inflate")
    ELSE IF \/ bin[3] # 1
            \/ bin[4] + bin[6] # 255
            \/ bin[5] + bin[7] # 255
            \/ bin[4] + 256 * bin[5] # Len(bin) - 11
    THEN Thrown("inflate")
    ELSE IF SubSeq(bin, Len(bin) - 3, Len(bin))
            # Adler32(SubSeq(bin, 8, Len(bin) - 4))
    THEN Thrown("inflate")
    ELSE Returned(SubSeq(bin, 8, Len(bin) - 4))

\* String.fromCharCode.apply(null, new Uint16Array(data)): one character
\* for each byte, with the byte's value as its code.
fromCharCode(data) == [i \in DOMAIN data |-> data[i] % 65536]

\* The value of a hexadecimal digit character, -1 when it is none.
HexDigit(c) ==
    IF c >= 48 /\ c <= 57 THEN c - 48
    ELSE IF c >= 97 /\ c <= 102 THEN c - 87
    ELSE IF c >= 65 /\ c <= 70 THEN c - 55
    ELSE 0 - 1

\* JSON.parse inside a string, from the character after the opening quote:
\* the characters up to the closing quote with the escapes resolved, and
\* the place after the closing quote; next is 0 when the string is not
\* well formed.
RECURSIVE ReadString(_, _, _)
ReadString(chars, i, acc) ==
    IF i > Len(chars) THEN [value |-> acc, next |-> 0]
    ELSE IF chars[i] = 34 THEN [value |-> acc, next |-> i + 1]
    ELSE IF chars[i] < 32 THEN [value |-> acc, next |-> 0]
    ELSE IF chars[i] # 92 THEN ReadString(chars, i + 1, Append(acc, chars[i]))
    ELSE IF i + 1 > Len(chars) THEN [value |-> acc, next |-> 0]
    ELSE IF chars[i + 1] \in {34, 92}
    THEN ReadString(chars, i + 2, Append(acc, chars[i + 1]))
    ELSE IF /\ chars[i + 1] = 117
            /\ i + 5 <= Len(chars)
            /\ \A k \in 2..5 : HexDigit(chars[i + k]) >= 0
    THEN ReadString(chars, i + 6,
                    Append(acc, HexDigit(chars[i + 2]) * 4096
                                + HexDigit(chars[i + 3]) * 256
                                + HexDigit(chars[i + 4]) * 16
                                + HexDigit(chars[i + 5])))
    ELSE [value |-> acc, next |-> 0]

\* Whether the piece stands in chars at place i.
StandsAt(chars, i, piece) ==
    /\ i >= 1
    /\ i + Len(piece) - 1 <= Len(chars)
    /\ SubSeq(chars, i, i + Len(piece) - 1) = piece

\* JSON.parse of the text of a message: the object {command, data}, or a
\* SyntaxError.
ParsedData(chars, command, d) ==
    IF d.next = 0 \/ d.next # Len(chars) \/ chars[d.next] # 125
    THEN Thrown("SyntaxError")
    ELSE Returned([command |-> command.value, data |-> d.value])
ParsedCommand(chars, command) ==
    IF command.next = 0 \/ ~StandsAt(chars, command.next - 1, JSONMid)
    THEN Thrown("SyntaxError")
    ELSE ParsedData(chars, command,
                    ReadString(chars, command.next - 1 + Len(JSONMid), <<>>))
JSONparse(chars) ==
    IF ~StandsAt(chars, 1, JSONOpen) THEN Thrown("SyntaxError")
    ELSE ParsedCommand(chars, ReadString(chars, Len(JSONOpen) + 1, <<>>))

\* The statements of socket.onmessage before onMessage(msg), which are
\* JSON.parse(b64Inflate(message.data)) in the correlator: the message, or
\* the exception of the first stage that throws.
Inflated(z) == IF z.ok THEN JSONparse(fromCharCode(z.value)) ELSE z
Decoded(a) == IF a.ok THEN Inflated(inflate(a.value)) ELSE a
b64Inflate(data) == Decoded(atob(data))

\* No message, and the codec at rest.
NotDecoded == [ok |-> FALSE, value |-> <<>>, error |-> "pending"]
CodecIdle ==
    /\ message = [command |-> <<>>, data |-> <<>>]
    /\ escaped = FALSE
    /\ frame = <<>>
    /\ decoded = NotDecoded

\* The codec on its own: a message and a serialiser, wrapped, then decoded.
CodecInit ==
    /\ message \in AppMessages
    /\ escaped \in BOOLEAN
    /\ frame = <<>>
    /\ decoded = NotDecoded

CodecWrap ==
    /\ frame = <<>>
    /\ frame' = transportWrap(message, escaped)
    /\ UNCHANGED <<message, escaped, decoded, corrVars, wsVars, navVars,
                   gridVars>>

CodecDecode ==
    /\ frame # <<>>
    /\ decoded = NotDecoded
    /\ decoded' = b64Inflate(frame)
    /\ UNCHANGED <<message, escaped, frame, corrVars, wsVars, navVars,
                   gridVars>>

CodecNext == CodecWrap \/ CodecDecode

\* The frames the server sends the handlers: the wrapped forms of two
\* messages, one with a character outside ASCII, escaped.
FrameMessages ==
    { [command |-> <<109, 101, 116, 97>>, data |-> <<97>>],
      [command |-> <<118, 105, 101, 119>>, data |-> <<233>>] }
WellFormedFrames == {transportWrap(m, TRUE) : m \in FrameMessages}

\* Frames that are not the wrapped form of a message: a character that is
\* no base64 digit, a stream with a byte of the text changed after the
\* checksum was made, and a stream of a JSON text cut before its end.
BadDigit(text) == [text EXCEPT ![1] = 33]
BadByte(bin) == [bin EXCEPT ![Len(bin) - 6] = (@ + 1) % 256]
CutText(chars) == SubSeq(chars, 1, Len(chars) - 1)
MalformedFrames ==
    UNION { { BadDigit(transportWrap(m, TRUE)),
              Base64(BadByte(Deflate(UTF8(Serialize(m, TRUE))))),
              Base64(Deflate(UTF8(CutText(Serialize(m, TRUE))))) }
            : m \in FrameMessages }

\* b64Inflate and JSON.parse of the frames the handlers meet, worked out
\* once.
KnownFrames == WellFormedFrames \cup MalformedFrames
FrameTable == [f \in KnownFrames |-> b64Inflate(f)]
DecodedFrame(f) == IF f \in KnownFrames THEN FrameTable[f] ELSE b64Inflate(f)

\* The command of a decoded message as the handlers compare it.
CommandOf(chars) ==
    IF chars = <<109, 101, 116, 97>> THEN "meta"
    ELSE IF chars = <<118, 105, 101, 119>> THEN "view"
    ELSE "other"

\* socket.onMessage of the correlator with the frame f: the first statement
\* is JSON.parse(b64Inflate(message.data)); when it throws the handler ends.
FrameTaken(r) ==
    IF r.ok
    THEN TakeMessage(CommandOf(r.value.command), FALSE)
    ELSE /\ thrown' = r.error
         /\ UNCHANGED <<promiseQueue, rawInputQueue, rawResolvedQueue,
                        deferreds, sent, socketState>>
OnFrame(f) ==
    /\ socketState = "open"
    /\ FrameTaken(DecodedFrame(f))
    /\ UNCHANGED <<wsVars, navVars, codecVars, gridVars>>

\* socket.onmessage of the socket s of the v0.2.3 client with the frame f:
\* atob, Pako.inflate and JSON.parse, then onMessage(msg); thrown is the
\* exception that left the handler.
FrameProcessed(r) ==
    IF r.ok
    THEN LET s1 == processMessage(Cur, Msg(CommandOf(r.value.command), "ok",
                                           Undefined, Undefined))
         IN Fits(s1) /\ Commit(s1) /\ thrown' = "none"
    ELSE thrown' = r.error /\ UNCHANGED wsVars
WSFrame(s, f) ==
    /\ sockets[s] = "open"
    /\ FrameProcessed(DecodedFrame(f))
    /\ UNCHANGED <<promiseQueue, rawInputQueue, rawResolvedQueue, deferreds,
                   sent, socketState, navVars, codecVars, gridVars>>

(***************************************************************************)
(* Part V: the grid controllers.  client-alpha/app/scripts/controllers/    *)
(* grid.js asks the serverManager, which calls request() of Part I; the    *)
(* older client/app/scripts/controllers/grid.js asks wsHandler             *)
(* (client/app/scripts/factories/websocket.js), a correlator that resolves *)
(* in a timer and has no handler for error and close.                      *)
(***************************************************************************)

\* The windows the grid asks for: pages of dataSource.pageSize rows.
Windows ==
    { [startRow |-> 0, endRow |-> 200], [startRow |-> 200, endRow |-> 400] }

\* The request objects: serverManager.requestMeta, serverManager
\* .requestRecords(start, end) (record is start when it is not given), and
\* wsHandler.getFirst().
MetaRequest == [command |-> "meta", start |-> 0, end |-> 0, record |-> 0]
requestRecords(start, end) ==
    [command |-> "view", start |-> start, end |-> end, record |-> start]
getFirst == [command |-> "view", start |-> 1, end |-> 100, record |-> 1]

\* A call of getRows(params): its window, the request made for it, its
\* deferred, and how often the callbacks of params have been called.
NewGridCall(params, req) ==
    [startRow |-> params.startRow, endRow |-> params.endRow, request |-> req,
     deferred |-> Len(deferreds) + 1, success |-> 0, fail |-> 0]

GridInit ==
    /\ dataSource = [installed |-> FALSE, rowCount |-> 0]
    /\ metaCall = 0
    /\ gridCalls = <<>>
    /\ requests = <<>>
    /\ timers = <<>>

\* gridOptions.ready of client-alpha: initGrid asks for the meta data.
GridReadyInstalls ==
    /\ metaCall = 0
    /\ MakeRequest("meta")
    /\ metaCall' = Len(deferreds) + 1
    /\ requests' = Append(requests, MetaRequest)
    /\ dataSource' = [dataSource EXCEPT !.installed = TRUE]
    /\ UNCHANGED <<gridCalls, timers, wsVars, navVars, codecVars>>
GridReady ==
    /\ metaCall = 0
    /\ MakeRequest("meta")
    /\ metaCall' = Len(deferreds) + 1
    /\ requests' = Append(requests, MetaRequest)
    /\ UNCHANGED <<dataSource, gridCalls, timers, wsVars, navVars, codecVars>>

\* The success callback of initGrid: rowCount is the total of the response
\* (the response is known by its arrival number), and the grid is given
\* the data source.  initGrid passes no callback for a rejection.
MetaThen ==
    /\ metaCall # 0
    /\ deferreds[metaCall].state = "resolved"
    /\ ~dataSource.installed
    /\ dataSource' = [installed |-> TRUE,
                      rowCount |-> deferreds[metaCall].value.id]
    /\ UNCHANGED <<metaCall, gridCalls, requests, timers, corrVars, wsVars,
                   navVars, codecVars>>

\* The grid, having the data source, calls getRows(params) of client-alpha.
GetRows(params) ==
    /\ dataSource.installed
    /\ MakeRequest("view")
    /\ requests' = Append(requests,
                          requestRecords(params.startRow, params.endRow))
    /\ gridCalls' = Append(gridCalls,
                           NewGridCall(params, requestRecords(params.startRow,
                                                              params.endRow)))
    /\ UNCHANGED <<dataSource, metaCall, timers, wsVars, navVars, codecVars>>

\* The callbacks getRows gave to then(): $q calls the first when the
\* promise is resolved, the second when it is rejected.
RowsThen(k) ==
    /\ gridCalls[k].success + gridCalls[k].fail = 0
    /\ deferreds[gridCalls[k].deferred].state # "pending"
    /\ gridCalls' =
           [gridCalls EXCEPT ![k] =
                IF deferreds[gridCalls[k].deferred].state = "resolved"
                THEN [@ EXCEPT !.success = @ + 1]
                ELSE [@ EXCEPT !.fail = @ + 1]]
    /\ UNCHANGED <<dataSource, metaCall, requests, timers, corrVars, wsVars,
                   navVars, codecVars>>

GridNext ==
    \/ GridReady
    \/ MetaThen
    \/ \E params \in Windows : GetRows(params)
    \/ \E k \in DOMAIN gridCalls : RowsThen(k)
    \/ SocketOpens
    \/ \E c \in MessageCommands : OnMessage(c)
    \/ OnError
    \/ OnClose

\* gridOptions.ready of client/app: the grid is given the data source, whose
\* rowCount is a number written in the file.
AppGridReady ==
    /\ ~dataSource.installed
    /\ dataSource' = [installed |-> TRUE, rowCount |-> 50000]
    /\ UNCHANGED <<metaCall, gridCalls, requests, timers, corrVars, wsVars,
                   navVars, codecVars>>

\* getRows(params) of client/app: wsHandler.getFirst(), whatever the window.
AppGetRows(params) ==
    /\ dataSource.installed
    /\ MakeRequest("view")
    /\ requests' = Append(requests, getFirst)
    /\ gridCalls' = Append(gridCalls, NewGridCall(params, getFirst))
    /\ UNCHANGED <<dataSource, metaCall, timers, wsVars, navVars, codecVars>>

\* socket.onMessage of wsHandler: the first entry with the command is taken
\* off the queue and a timer is set that will resolve its deferred.
HandlerMessage(command) ==
    /\ socketState = "open"
    /\ Len(rawInputQueue) < MaxMessages
    /\ LET incomingData == [command |-> command,
                            id |-> Len(rawInputQueue) + 1, error |-> FALSE]
           i == FirstMatch(promiseQueue, command)
       IN /\ rawInputQueue' = Append(rawInputQueue, incomingData)
          /\ IF i # 0
             THEN /\ promiseQueue' = Splice(promiseQueue, i)
                  /\ timers' = Append(timers, [deferred |-> promiseQueue[i][2],
                                               data |-> incomingData])
             ELSE UNCHANGED <<promiseQueue, timers>>
    /\ thrown' = "none"
    /\ UNCHANGED <<rawResolvedQueue, deferreds, sent, socketState, dataSource,
                   metaCall, gridCalls, requests, wsVars, navVars, codecVars>>

\* The timer of the earliest resolution fires: resolvedQueue.push and
\* promise.resolve(incomingData).
TimerFires ==
    /\ timers # <<>>
    /\ timers' = Tail(timers)
    /\ rawResolvedQueue' = Append(rawResolvedQueue, Head(timers).data)
    /\ deferreds' = [deferreds EXCEPT ![Head(timers).deferred] =
                         QResolve(@, Head(timers).data)]
    /\ thrown' = "none"
    /\ UNCHANGED <<promiseQueue, rawInputQueue, sent, socketState, dataSource,
                   metaCall, gridCalls, requests, wsVars, navVars, codecVars>>

\* The socket of wsHandler fails or closes: no handler is registered.
HandlerSocketEnds ==
    /\ socketState \in {"connecting", "open"}
    /\ socketState' = "closed"
    /\ UNCHANGED <<promiseQueue, rawInputQueue, rawResolvedQueue, deferreds,
                   sent, thrown, wsVars, navVars, codecVars, gridVars>>

AppGridNext ==
    \/ AppGridReady
    \/ \E params \in Windows : AppGetRows(params)
    \/ \E k \in DOMAIN gridCalls : RowsThen(k)
    \/ SocketOpens
    \/ \E c \in MessageCommands : HandlerMessage(c)
    \/ TimerFires
    \/ HandlerSocketEnds

(***************************************************************************)
(* The specifications.                                                     *)
(***************************************************************************)
vars == <<corrVars, wsVars, navVars, codecVars, gridVars>>

\* Part I alone: the v0.2.3 client is not running.
Init == CorrInit /\ WSInit /\ hash = EmptyFragment /\ NavIdle /\ CodecIdle
    /\ GridInit /\ hashchange = EventsOff
Next == CorrNext

Spec == Init /\ [][Next]_vars

\* The browser delivers the close event of a socket whose error event fired;
\* nothing obliges the server to answer or the connection to end.
FairSpec == Spec /\ WF_vars(CloseAfterError)

\* The correlator when the server also reports errors.
ErrNext == CorrNext \/ \E c \in MessageCommands : OnErrorMessage(c)
SpecErr == Init /\ [][ErrNext]_vars

\* Part II alone: no request is made on the correlator.
InitWS == CorrInit /\ WSInit /\ hash \in UserHashes /\ NavIdle /\ CodecIdle
    /\ GridInit /\ hashchange = EventsOff

SpecWS == InitWS /\ [][WSNext]_vars

\* The navigation of Part II on its own.
InitApply == CorrInit /\ WSInit /\ hash \in ApplyHashes /\ NavIdle /\ CodecIdle
    /\ GridInit /\ hashchange = EventsOff

SpecApply == InitApply /\ [][ApplyNext]_vars

\* The inbound dispatch of Part II on its own.
InitMeta == CorrInit /\ WSInit /\ hash = EmptyFragment /\ NavIdle /\ CodecIdle
    /\ GridInit /\ hashchange = EventsOff

SpecMeta == InitMeta /\ [][MetaNext]_vars

\* The inbound dispatch with searches: the search box is submitted and the
\* server answers with results or with a failure.
SearchNext ==
    \/ MetaNext
    \/ \E call \in afterShow : NotyAfterShow(call)
    \/ UserSearch(Str(<<"a">>))
SpecSearch == InitMeta /\ [][SearchNext]_vars

\* The navigation by the boxes.
InitBrowse ==
    /\ CorrInit /\ WSInit /\ hash \in BrowseHashes /\ NavIdle /\ CodecIdle
    /\ GridInit /\ hashchange = EventsOn
SpecBrowse == InitBrowse /\ [][BrowseNext]_vars

\* The reconnects started by sendRequest.
InitReconnect ==
    /\ CorrInit /\ WSInit /\ hash \in ReconnectHashes /\ NavIdle /\ CodecIdle
    /\ GridInit /\ hashchange = EventsOff
SpecReconnect == InitReconnect /\ [][ReconnectNext]_vars

\* Part III alone.
InitNav == CorrInit /\ WSInit /\ hash = EmptyFragment /\ NavInit /\ CodecIdle
    /\ GridInit /\ hashchange = EventsOff

SpecNav == InitNav /\ [][NavNext]_vars

\* The codec alone.
InitCodec ==
    /\ CorrInit /\ WSInit /\ hash = EmptyFragment /\ NavIdle /\ CodecInit
    /\ GridInit /\ hashchange = EventsOff
SpecCodec == InitCodec /\ [][CodecNext]_vars

\* The grid of client-alpha on the correlator, and the grid of client/app on
\* wsHandler.
SpecGrid == Init /\ [][GridNext]_vars
SpecGridApp == Init /\ [][AppGridNext]_vars

\* The correlator with the frames the server sends, well formed or not.
FramesNext ==
    \/ \E c \in RequestCommands : Request(c)
    \/ SocketOpens
    \/ \E f \in KnownFrames : OnFrame(f)
    \/ OnError
    \/ OnClose
SpecFrames == Init /\ [][FramesNext]_vars

\* The inbound dispatch of the v0.2.3 client with such frames.
WSFramesNext ==
    \/ MetaNext
    \/ \E s \in DOMAIN sockets :
           \E f \in KnownFrames : WSFrame(s, f)
SpecWSFrames == InitMeta /\ [][WSFramesNext]_vars

(***************************************************************************)
(* The claims about the Request Correlator.                                *)
(***************************************************************************)
InQueue(d) == \E i \in DOMAIN promiseQueue : promiseQueue[i][2] = d
Settles(d) == deferreds[d].resolveCalls + deferreds[d].rejectCalls

\* The place in rawResolvedQueue of the message that resolved d.
ResolvedAt(d) ==
    CHOOSE i \in DOMAIN rawResolvedQueue : rawResolvedQueue[i] = deferreds[d].value

\* C1: of two requests with the same command tag, the later one is resolved
\* only after the earlier one, by a later message, and each is resolved by
\* exactly one call.
C1_FifoCorrelation ==
    \A a, b \in DOMAIN deferreds :
        (a < b /\ deferreds[a].command = deferreds[b].command
               /\ deferreds[b].state = "resolved")
        => /\ deferreds[a].state = "resolved"
           /\ deferreds[a].value.id < deferreds[b].value.id
           /\ ResolvedAt(a) < ResolvedAt(b)
           /\ deferreds[a].resolveCalls = 1
           /\ deferreds[b].resolveCalls = 1

C1_Witness ==
    \E a, b \in DOMAIN deferreds :
        /\ a < b
        /\ deferreds[a].command = deferreds[b].command
        /\ deferreds[a].state = "resolved"
        /\ deferreds[b].state = "resolved"

\* C2: no deferred is resolved twice, rejected twice, or both resolved and
\* rejected: the correlator calls resolve or reject on it at most once.
C2_SettledAtMostOnce == \A d \in DOMAIN deferreds : Settles(d) <= 1

\* An error event followed by the close event, with requests before it.
C2_Witness ==
    /\ socketState = "closed"
    /\ \E d \in DOMAIN deferreds :
          deferreds[d].state = "rejected" /\ deferreds[d].reason = "WebSocket error."
    /\ \E d \in DOMAIN deferreds : deferreds[d].state = "resolved"

\* C3 as stated: every request passed to request() is eventually settled
\* and out of the pending sequence.
C3_EventuallySettled ==
    \A d \in 1..MaxRequests :
        (d \in DOMAIN deferreds)
        ~> (d \in DOMAIN deferreds /\ deferreds[d].state # "pending" /\ ~InQueue(d))

\* C3 as amended: a request is in the pending sequence, once, exactly while
\* it is unsettled, and leaves it exactly when it is settled, by one call.
C3_QueuedWhilePending ==
    \A d \in DOMAIN deferreds :
        /\ InQueue(d) <=> deferreds[d].state = "pending"
        /\ Cardinality({i \in DOMAIN promiseQueue : promiseQueue[i][2] = d}) <= 1
        /\ Settles(d) = IF deferreds[d].state = "pending" THEN 0 ELSE 1

\* A request made after the close event stays pending, beside settled ones.
C3_Witness ==
    /\ socketState = "closed"
    /\ promiseQueue # <<>>
    /\ \E d \in DOMAIN deferreds : deferreds[d].state = "resolved"
    /\ \E d \in DOMAIN deferreds : deferreds[d].state = "rejected"

\* C4: an error or close event rejects every pending request with the
\* reason of that event and leaves the pending sequence empty.
C4_BulkRejection ==
    [][(socketState' # socketState /\ socketState' \in {"errored", "closed"})
       => /\ promiseQueue' = <<>>
          /\ \A i \in DOMAIN promiseQueue :
                LET d == promiseQueue[i][2]
                IN /\ deferreds'[d].state = "rejected"
                   /\ deferreds'[d].reason \in RejectReasons
                   /\ deferreds'[d].reason = IF socketState' = "errored"
                                             THEN "WebSocket error."
                                             ELSE "WebSocket closed."
          /\ \A d \in DOMAIN deferreds :
                ~InQueue(d) => deferreds'[d] = deferreds[d]]_vars

\* A fault with N = 2 pending requests.
C4_Witness ==
    /\ promiseQueue = <<>>
    /\ \E a, b \in DOMAIN deferreds :
          /\ a # b
          /\ deferreds[a].state = "rejected"
          /\ deferreds[b].state = "rejected"
          /\ deferreds[a].reason = deferreds[b].reason

\* The pending entries whose tag is the command of the message that arrives
\* in this step.
Arrived == rawInputQueue'[Len(rawInputQueue')]
Matching == {i \in DOMAIN promiseQueue : promiseQueue[i][1] = Arrived.command}
Earliest == CHOOSE i \in Matching : \A j \in Matching : i <= j

\* C5: a message removes and resolves exactly the earliest pending entry
\* with its command; every other entry stays, in the same order, unsettled.
C5_FirstMatchRemoval ==
    [][(Len(rawInputQueue') = Len(rawInputQueue) + 1 /\ Matching # {})
       => LET d == promiseQueue[Earliest][2]
          IN /\ promiseQueue' =
                    [k \in 1..(Len(promiseQueue) - 1) |->
                        IF k < Earliest THEN promiseQueue[k]
                        ELSE promiseQueue[k + 1]]
             /\ deferreds'[d].state = "resolved"
             /\ deferreds'[d].value = Arrived
             /\ \A e \in DOMAIN deferreds :
                   e # d => deferreds'[e] = deferreds[e]]_vars

\* A response that passed over an earlier entry of another tag and left a
\* later entry of its own tag pending.
C5_Witness ==
    \E i, j \in DOMAIN promiseQueue : \E d \in DOMAIN deferreds :
        /\ i < j
        /\ promiseQueue[i][2] < d
        /\ d < promiseQueue[j][2]
        /\ deferreds[d].state = "resolved"
        /\ promiseQueue[i][1] # deferreds[d].command
        /\ promiseQueue[j][1] = deferreds[d].command

\* C6: a message whose command is the tag of no pending request raises no
\* error, settles nothing and leaves the pending sequence as it is.
C6_UnmatchedDrop ==
    [][(Len(rawInputQueue') = Len(rawInputQueue) + 1 /\ Matching = {})
       => /\ promiseQueue' = promiseQueue
          /\ deferreds' = deferreds
          /\ rawResolvedQueue' = rawResolvedQueue
          /\ thrown' = "none"]_vars

\* A message arrived while two requests of other tags were pending, and
\* they still are.
C6_Witness ==
    \E k \in DOMAIN rawInputQueue : \E i, j \in DOMAIN promiseQueue :
        /\ i < j
        /\ deferreds[promiseQueue[i][2]].seen < k
        /\ deferreds[promiseQueue[j][2]].seen < k
        /\ promiseQueue[i][1] # rawInputQueue[k].command
        /\ promiseQueue[j][1] # rawInputQueue[k].command
        /\ \A r \in DOMAIN rawResolvedQueue : rawResolvedQueue[r] # rawInputQueue[k]

(***************************************************************************)
(* The claims about the Connection Manager.                                *)
(***************************************************************************)
\* C7: an event of a socket that is not the one made last changes neither
\* _up nor anything the callbacks touch.  (Open, error and close events,
\* which change the socket's phase.)
C7_OldSocketInert ==
    [][\A s \in DOMAIN sockets :
          (s < Len(sockets) /\ sockets'[s] # sockets[s])
          => /\ _up' = _up
             /\ nCalls' = nCalls
             /\ wire' = wire
             /\ alertDiv' = alertDiv
             /\ _searchNote' = _searchNote
             /\ hash' = hash]_vars

\* C8 as stated: a sendRequest made while the current connection is not
\* open writes no frame and fails for its caller.
C8_FailsFastWhenNotOpen ==
    \A i \in DOMAIN lastSend :
        lastSend[i].phase # "open"
        => /\ lastSend[i].outcome = "threw"
           /\ \A j \in DOMAIN wire : wire[j].req # lastSend[i].req

\* C8 as amended: a sendRequest made while isUp() is false writes no frame;
\* the request is dropped, not queued, the call returns normally and a new
\* socket has been made by reInitSocket.  Made while isUp() is true and the
\* current socket is not open, it writes no frame either: send throws on a
\* connecting socket and discards the data on an errored or closed one.
C8_DroppedWhenDown ==
    \A i \in DOMAIN lastSend :
        /\ ~lastSend[i].up
           => /\ lastSend[i].outcome = "dropped"
              /\ lastSend[i].newSock \in DOMAIN sockets
              /\ lastSend[i].newSock <= _socket
        /\ (lastSend[i].up /\ lastSend[i].phase # "open")
           => /\ lastSend[i].outcome =
                     IF lastSend[i].phase = "connecting" THEN "threw" ELSE "lost"
              /\ lastSend[i].newSock = 0
        /\ (~lastSend[i].up \/ lastSend[i].phase # "open")
           => /\ \A j \in DOMAIN wire : wire[j].req # lastSend[i].req
              /\ \A c \in afterShow : c.req # lastSend[i].req

\* A request dropped by a sendRequest that made the second socket.
C8_Witness ==
    \E i \in DOMAIN lastSend :
        /\ ~lastSend[i].up
        /\ lastSend[i].outcome = "dropped"
        /\ lastSend[i].newSock = Len(sockets)
        /\ Len(sockets) >= 2

\* C9: a socket is made only when the current connection is disconnected,
\* errored or closed, never while it is connecting or open.
C9_ConnectOnlyWhenDown ==
    [][Len(sockets') > Len(sockets)
       => PhaseOf(sockets, _socket) \in {"disconnected", "errored", "closed"}]_vars

\* C10 as stated: two frames of requests that were issued while the
\* connection they are written to was open are on the wire in call order.
C10_CallOrderOnWire ==
    \A i, j \in DOMAIN wire :
        (i < j /\ wire[i].sock = wire[j].sock
               /\ wire[i].issuedOn = wire[i].sock
               /\ wire[j].issuedOn = wire[j].sock)
        => wire[i].req < wire[j].req

\* C10 as amended: a frame is behind the frame of a later request only when
\* it was held for the search note's afterShow by execSearch.
C10_OrderExceptAfterShow ==
    \A i, j \in DOMAIN wire :
        (i < j /\ wire[i].req > wire[j].req)
        => /\ wire[j].via = "afterShow"
           /\ wire[j].command = "search"

\* A search written behind a later request, and two frames in call order.
C10_Witness ==
    /\ \E i, j \in DOMAIN wire : i < j /\ wire[i].req > wire[j].req
    /\ \E i, j \in DOMAIN wire :
          i < j /\ wire[i].req < wire[j].req /\ wire[j].via = "direct"

\* The calls of sendRequest that found the connection down.
SendsWhileDown(log) == {k \in DOMAIN log : log[k].outcome = "dropped"}

\* C31: a sendRequest while the connection is down makes a new socket, which
\* is connecting and is the current one afterwards; and when a socket that
\* sendRequest has made opens, hashRequest runs on the current fragment and
\* makes the request the fragment encodes, and the request of a view is
\* written on that socket.
C31_ReconnectLoadsFragment ==
    [][/\ \A k \in SendsWhileDown(lastSend') :
              /\ Len(sockets') = Len(sockets) + 1
              /\ lastSend'[k].newSock = Len(sockets')
              /\ _socket' = Len(sockets')
              /\ sockets'[Len(sockets')] = "connecting"
       /\ \A s \in DOMAIN sockets :
              (s > 1 /\ WSOpenWithin(s, MaxReconnects))
              => /\ \E i \in DOMAIN navLog' :
                        /\ navLog'[i].fn = "hashRequest"
                        /\ navLog'[i].newHash = hash
                        /\ navLog'[i].made = <<parseHash(hash).operation>>
                 /\ \A k \in DOMAIN lastSend' :
                        lastSend'[k].command = "view"
                        => /\ lastSend'[k].outcome = "sent"
                           /\ wire'[Len(wire')].sock = s]_vars

\* C36: after every step isUp() is true exactly when the socket made last
\* has had its open event and no error or close event since, and a frame
\* is written only on a socket that is open.
C36_UpIsCurrentOpen ==
    [][/\ _up' <=> (sockets' # <<>> /\ sockets'[Len(sockets')] = "open")
       /\ \A i \in DOMAIN wire' :
              i > Len(wire) => sockets'[wire'[i].sock] = "open"]_vars

(***************************************************************************)
(* The claims about the navigation functions.                              *)
(***************************************************************************)
\* The request has been parsed from the first fragment made for origin.
ParsedBack ==
    /\ origin # NoRequest
    /\ Len(rendered) = 1
    /\ request # NoRequest

RenderedTwice == origin = NoRequest /\ Len(rendered) = 2

\* C12: for a fragment f of the grammar, the fragment c made for the request
\* parsed from f is a fixpoint: the fragment made for the request parsed
\* from c is c.
C12_CanonicalFixpoint == RenderedTwice => rendered[2] = rendered[1]

\* A fragment that is not canonical (an escape that is not needed, no page),
\* its canonical form, and the canonical form again.
C12_Witness ==
    /\ RenderedTwice
    /\ rendered[1] = <<"#", "query", "=", "%26", "b", "&", "page", "=", "1">>
    /\ rendered[2] = rendered[1]

\* The fragment f has a parameter named k: k stands at the start of f or
\* right after '#' or '&'.
HasParam(f, k) ==
    \E i \in DOMAIN f : f[i] = k /\ (i = 1 \/ f[i - 1] \in {"#", "&"})
FlagNames == {"langid", "retrain", "restart", "shutdown"}
HasFlag(f) == \E k \in FlagNames : HasParam(f, k)

\* The request has been parsed from a fragment of the grammar.
ParsedFragment ==
    /\ origin = NoRequest
    /\ rendered = <<>>
    /\ request # NoRequest

\* C14: '' and '#' parse to init.  Of any other fragment: one with a flag
\* parses to a flag it has, whatever id, query or page it has besides (to
\* retrain, restart or shutdown before langid); one with a query and no flag
\* parses to search; one with an id and neither query nor flag parses to
\* view; and one with a query and no page has page 1.
C14_ParsePrecedence ==
    ParsedFragment
    => IF fragment \in {<<>>, <<"#">>} THEN request.operation = "init"
       ELSE /\ HasFlag(fragment)
               => /\ request.operation \in FlagNames
                  /\ HasParam(fragment, request.operation)
                  /\ request.operation = "langid"
                     => \A k \in FlagNames \ {"langid"} :
                            ~HasParam(fragment, k)
            /\ (HasParam(fragment, "query") /\ ~HasFlag(fragment))
               => request.operation = "search"
            /\ (HasParam(fragment, "id") /\ ~HasParam(fragment, "query")
                   /\ ~HasFlag(fragment))
               => request.operation = "view"
            /\ (HasParam(fragment, "query") /\ ~HasParam(fragment, "page"))
               => request.page = Num(1)

\* An id with the langid flag has parsed to langid, the id kept.
C14_Witness ==
    /\ ParsedFragment
    /\ fragment = <<"#", "id", "=", "7", "&", "langid">>
    /\ request.operation = "langid"
    /\ request.id = Num(7)

\* The flags of a fragment, and the place of a flag in the order of the
\* server commands: the higher, the stronger.
FlagsOf(f) == {k \in FlagNames : HasParam(f, k)}
FlagRank(k) ==
    CASE k = "retrain" -> 4
      [] k = "restart" -> 3
      [] k = "shutdown" -> 2
      [] k = "langid" -> 1
      [] OTHER -> 0

\* C39: a fragment with several flags parses to one operation, the flag of
\* the highest rank among those it has (retrain, then restart, then
\* shutdown, then langid), wherever the flags stand in the fragment.
C39_FlagPrecedence ==
    (ParsedFragment /\ Cardinality(FlagsOf(fragment)) >= 2)
    => /\ request.operation \in FlagsOf(fragment)
       /\ \A k \in FlagsOf(fragment) :
              FlagRank(k) <= FlagRank(request.operation)

\* The fragment with shutdown before retrain has parsed to retrain.
C39_Witness ==
    /\ ParsedFragment
    /\ fragment = <<"#", "shutdown", "&", "retrain">>
    /\ request.operation = "retrain"

\* fetchRecord has made the view request of the request's id.
Fetched == window # NoArgs

\* C18: the view request fetchRecord makes for a record id >= 1 has the id
\* as its record and the page of recordsPerPage records that holds it:
\* start <= id <= end, end = start + recordsPerPage - 1, and start is 1
\* more than a multiple of recordsPerPage (201..300 for 251, 1..100 for 100).
C18_PageWindow ==
    Fetched
    => /\ window.record >= 1
       /\ request.operation = "view" => request.id = Num(window.record)
       /\ window.start <= window.record
       /\ window.record <= window.end
       /\ window.end = window.start + recordsPerPage - 1
       /\ window.start % recordsPerPage = 1
       /\ window.record = 251 => (window.start = 201 /\ window.end = 300)
       /\ window.record = 100 => (window.start = 1 /\ window.end = 100)

\* The page of record 251, the id parsed from '#id=251'.
C18_Witness ==
    /\ Fetched
    /\ origin = NoRequest
    /\ fragment = <<"#", "id", "=", "2", "5", "1">>
    /\ window = [start |-> 201, end |-> 300, record |-> 251, query |-> <<>>]

\* commandView has given pagerUpdate the page of the response.
Reported == pager # NoPager

\* C37: the link the pager makes for a page p leads fetchRecord to the
\* window that starts at (p - 1) * recordsPerPage + 1, and commandView, for
\* the response whose first row has that rowid, reports page p; and for
\* every record the reported page is the page whose window holds the record.
C37_ViewPagingRoundTrip ==
    /\ \A p \in 1..(MaxPage + 1) :
           (origin = NoRequest /\ rendered = <<>> /\ fragment = pagerLink(p))
           => /\ Fetched
                 => /\ window.start = (p - 1) * recordsPerPage + 1
                    /\ window.record = window.start
              /\ Reported => pager.currentPage = p
    /\ Reported
       => /\ pager.currentPage >= 1
          /\ (pager.currentPage - 1) * recordsPerPage + 1 <= window.record
          /\ window.record <= pager.currentPage * recordsPerPage

\* The link of page 3 has been followed: the window starts at 201 and the
\* page reported for its response is 3.
C37_Witness ==
    /\ origin = NoRequest
    /\ fragment = <<"#", "id", "=", "2", "0", "1">>
    /\ window.start = 201
    /\ pager = [mode |-> "view", currentPage |-> 3]

(***************************************************************************)
(* The claims about hashRequest and _setHash.                              *)
(***************************************************************************)
\* The calls of hashRequest and of _setHash in the handler that has just run.
HashRequests == {i \in DOMAIN navLog : navLog[i].fn = "hashRequest"}
SetHashes == {i \in DOMAIN navLog : navLog[i].fn = "_setHash"}

\* The command of the request a request function makes for an operation:
\* fetchRecord makes a view, the others the command of their name.
CommandFor(operation) == IF operation = "init" THEN "view" ELSE operation

\* The operations that are variants of the navigation state.
Variants ==
    {"init", "view", "search", "langid", "retrain", "restart", "shutdown"}

\* C13 as stated: hashRequest, for a request with one of the operations,
\* calls exactly one request function, the one of the operation.
C13_ExactlyOneRequest ==
    \A i \in HashRequests :
        navLog[i].request.operation \in Variants
        => navLog[i].made = <<CommandFor(navLog[i].request.operation)>>

\* C13 as amended: hashRequest calls no request function for a view whose
\* id is 0 or not a number and for a fragment without an operation, and
\* exactly one, the one of the operation, in every other case.
C13_OneRequestUnlessNoId ==
    \A i \in HashRequests :
        LET req == navLog[i].request
        IN IF \/ req.operation = ""
              \/ req.operation = "view" /\ ~Truthy(req.id)
           THEN navLog[i].made = <<>>
           ELSE navLog[i].made = <<CommandFor(req.operation)>>

\* hashRequest has run on '#id=0' and called no request function.
C13_Witness ==
    \E i \in HashRequests :
        /\ navLog[i].request.operation = "view"
        /\ navLog[i].request.id = Num(0)
        /\ navLog[i].newHash = <<"#", "id", "=", "0">>
        /\ navLog[i].made = <<>>

\* C15: a call of _setHash with noLoad (and without forceLoad, as every
\* caller that passes noLoad makes it) makes no request and leaves the
\* sockets, the wire, the notes and the alerts, the view and Meta as they
\* were: it changes at most the fragment, the last loaded hash and the
\* title; the fragment and the last loaded hash are newHash afterwards.
C15_NoLoadNoRequest ==
    \A i \in SetHashes :
        (navLog[i].noLoad /\ ~navLog[i].forceLoad)
        => /\ navLog[i].made = <<>>
           /\ navLog[i].kept
           /\ navLog[i].hashAfter = navLog[i].newHash
           /\ navLog[i].lastAfter = [isNull |-> FALSE, hash |-> navLog[i].newHash]

\* requestUpdate or execLangID has sent its request and then saved the
\* record's fragment with noLoad, the fragment being another one before.
C15_Witness ==
    \E i \in SetHashes :
        /\ navLog[i].noLoad
        /\ ~navLog[i].same
        /\ navLog[i].newHash = <<"#", "id", "=", "1">>
        /\ hash = navLog[i].newHash
        /\ navLog[i].made = <<>>
        /\ lastSend # <<>>

\* C16: a call of _setHash with forceLoad and without noLoad runs
\* hashRequest once, on newHash, and hashRequest makes one request, the one
\* of the operation newHash parses to, whether newHash was the last loaded
\* hash or not; nav.search makes these calls, and the request is a search.
C16_ForceLoadOnce ==
    \A i \in SetHashes :
        (navLog[i].forceLoad /\ ~navLog[i].noLoad)
        => /\ Cardinality(HashRequests) = 1
           /\ \A j \in HashRequests :
                  /\ j < i
                  /\ navLog[j].newHash = navLog[i].newHash
                  /\ navLog[j].request = parseHash(navLog[i].newHash)
                  /\ navLog[j].made = <<CommandFor(navLog[j].request.operation)>>
           /\ navLog[i].made = <<"search">>
           /\ navLog[i].hashAfter = navLog[i].newHash

\* The search box is submitted with the search that is already loaded: the
\* search request is made again.
C16_Witness ==
    \E i \in SetHashes :
        /\ navLog[i].forceLoad
        /\ ~navLog[i].noLoad
        /\ navLog[i].same
        /\ navLog[i].newHash =
              <<"#", "query", "=", "a", "%26", "b", "&", "page", "=", "1">>
        /\ navLog[i].made = <<"search">>

\* C17: after hashRequest has applied a langid, retrain, restart or shutdown
\* request, the fragment has no flag any more: it is '#' after retrain,
\* restart and shutdown, and the fragment of the record's id after langid.
C17_TransientNotPersisted ==
    \A i \in HashRequests :
        LET req == navLog[i].request
        IN req.operation \in FlagNames
           => /\ ~HasFlag(navLog[i].hashAfter)
              /\ navLog[i].hashAfter =
                    createHash(IF req.operation = "langid" THEN req.id
                               ELSE Undefined, Undefined, Undefined)

\* The outermost call of the handler that has just run was hashRequest, or
\* a _setHash whose newHash was not the last loaded fragment.
NavCompleted(log) ==
    /\ log # <<>>
    /\ \/ log[Len(log)].fn = "hashRequest"
       \/ log[Len(log)].fn = "_setHash" /\ ~log[Len(log)].same

\* C29 as stated: after hashRequest, or after a _setHash that changes the
\* fragment, the title is the one updateTitle makes of the request parsed
\* from the fragment.
C29_TitleFollowsFragment ==
    NavCompleted(navLog) => title = TitleOf(ParsedHash(hash))

\* C29 as amended: it is so when the fragment parses to one of the seven
\* operations; when it parses to none, the title stays what it was.
C29_TitleFollowsOperation ==
    [][NavCompleted(navLog')
       => IF ParsedHash(hash').operation # ""
          THEN title' = TitleOf(ParsedHash(hash'))
          ELSE title' = title]_vars

\* The fragment of a language identification was applied and replaced,
\* without a load, by the fragment of its record: the title is the record's.
C29_Witness ==
    /\ Len(navLog) = 3
    /\ navLog[1].fn = "_setHash" /\ navLog[1].noLoad
    /\ navLog[2].fn = "hashRequest"
    /\ navLog[2].request.operation = "langid"
    /\ hash = <<"#", "id", "=", "1">>
    /\ title = [operation |-> "view", text |-> <<"1">>]

\* The sends of the handler that has just run whose request is a view.
ViewSends == {k \in DOMAIN lastSend : lastSend[k].command = "view"}

\* The calls of hashRequest on an empty fragment in that handler.
InitRequests ==
    {i \in HashRequests : navLog[i].newHash \in {<<>>, <<"#">>}}

\* C38: when hashRequest has run on '' or '#', it has made exactly one
\* request, a view request with start 1, end recordsPerPage and record 1,
\* handed to sendRequest once, and the title is the base title.
C38_InitLoadsFirstPage ==
    \A i \in InitRequests :
        /\ navLog[i].request.operation = "init"
        /\ navLog[i].made = <<"view">>
        /\ Cardinality(ViewSends) = 1
        /\ \A k \in ViewSends :
               lastSend[k].args = [start |-> 1, end |-> recordsPerPage,
                                   record |-> 1, query |-> <<>>]
        /\ title = [operation |-> "init", text |-> <<>>]

\* The fragment was changed to '#' on an open connection after another
\* title was shown: the first page is on the wire and the title is the
\* base title again.
C38_Witness ==
    /\ InitRequests # {}
    /\ hash = <<"#">>
    /\ Len(wire) >= 3
    /\ wire[1].command = "meta"
    /\ wire[Len(wire)].command = "view"
    /\ wire[Len(wire)].args.start = 1
    /\ wire[Len(wire)].args.end = recordsPerPage
    /\ wire[Len(wire)].args.record = 1
    /\ wire[2].args.record # 1
    /\ title = [operation |-> "init", text |-> <<>>]

(***************************************************************************)
(* The claims about the boxes and the hashchange events.                   *)
(***************************************************************************)
\* The calls of _setHash of a log that took the branch that sets the
\* fragment.
Setting(log) == {i \in DOMAIN log : log[i].fn = "_setHash" /\ ~log[i].same}

\* C32: a call of _setHash that sets the fragment makes exactly one request
\* when it loads and none with noLoad, and the hashchange event of a
\* fragment the code has set, when its handler runs, finds the fragment to
\* be the last loaded one: it runs no hashRequest, makes no request and no
\* socket, and leaves the fragment and the wire as they are.
C32_NoDoubleLoad ==
    [][/\ \A i \in Setting(navLog') :
              Len(navLog'[i].made) = IF navLog'[i].noLoad THEN 0 ELSE 1
       /\ HashChangeEvent
          => /\ Len(navLog') = 1
             /\ navLog'[1].fn = "_setHash"
             /\ navLog'[1].same
             /\ navLog'[1].made = <<>>
             /\ nCalls' = nCalls
             /\ wire' = wire
             /\ afterShow' = afterShow
             /\ sockets' = sockets
             /\ hash' = hash
             /\ _lastLoadedHash' = _lastLoadedHash]_vars

\* The page box has taken the view to page 2: the view of record 101 is on
\* the wire once, and the event of the fragment has been handled.
C32_Witness ==
    /\ hash = <<"#", "id", "=", "1", "0", "1">>
    /\ hashchange.queued = 0
    /\ Len(navLog) = 1
    /\ navLog[1].same
    /\ ~navLog[1].forceLoad
    /\ Cardinality({i \in DOMAIN wire : wire[i].args.record = 101}) = 1

\* What jumpPage is to do for page p: the fragment is the one of page p of
\* the current view, and, unless that fragment is the one already loaded,
\* the request of page p is made: a search for the current query with
\* page p in search mode, a view whose window starts at the first record
\* of page p otherwise.
JumpedToSearch(query, p) ==
    /\ hash' = createHash(Undefined, query, Num(p))
    /\ navLog' # <<>>
    /\ navLog'[Len(navLog')].made = <<"search">>
    /\ \/ \E c \in afterShow' \ afterShow :
              c.args = execSearchArgs(query, Num(p))
       \/ \E k \in DOMAIN lastSend' :
              lastSend'[k].args = execSearchArgs(query, Num(p))
JumpedToView(p) ==
    /\ hash' = pagerLink(p)
    /\ (_lastLoadedHash.isNull \/ _lastLoadedHash.hash # pagerLink(p))
       => /\ navLog' # <<>>
          /\ navLog'[Len(navLog')].made = <<"view">>
          /\ \E k \in DOMAIN lastSend' :
                 /\ lastSend'[k].command = "view"
                 /\ lastSend'[k].args.start = (p - 1) * recordsPerPage + 1
JumpedTo(p) ==
    IF ParsedHash(hash).operation = "search"
    THEN JumpedToSearch(ParsedHash(hash).query, p)
    ELSE JumpedToView(p)

\* C33: jumpPage(p), for p >= 1 and whatever the fragment is (a view, a
\* search, or the empty fragment of the initial view), sets the fragment of
\* page p and makes the request of page p.
C33_JumpPageRequestsPage ==
    [][\A p \in 1..2 :
          UserJumpPage(Str(NumberToString(p))) => JumpedTo(p)]_vars

\* The search responses with results.
SearchResults ==
    {msg \in BrowseMessages : msg.command = "search" /\ msg.kind = "ok"}

\* C34: the processing of a search response with results makes the fragment
\* the one of the returned query and of page floor(offset / recordsPerPage)
\* + 1 by one _setHash with noLoad, makes Meta.totalSearch the returned
\* total, and makes no request and no socket, whatever search was asked for;
\* and the hashchange event of that fragment makes no request either.
C34_SearchResponseNoSearch ==
    [][/\ \A msg \in SearchResults :
              (\E s \in DOMAIN sockets : WSMessage(s, msg))
              => /\ hash' = createHash(Undefined, msg.query,
                                       Num((msg.offset.num \div recordsPerPage) + 1))
                 /\ _lastLoadedHash' = [isNull |-> FALSE, hash |-> hash']
                 /\ Meta'.totalSearch = msg.total
                 /\ nCalls' = nCalls
                 /\ wire' = wire
                 /\ afterShow' = afterShow
                 /\ sockets' = sockets
                 /\ lastSend' = <<>>
                 /\ Len(navLog') = 1
                 /\ navLog'[1].fn = "_setHash"
                 /\ navLog'[1].noLoad
                 /\ navLog'[1].made = <<>>
       /\ (HashChangeEvent /\ navLog # <<>> /\ navLog[Len(navLog)].noLoad)
          => /\ nCalls' = nCalls
             /\ wire' = wire
             /\ afterShow' = afterShow]_vars

\* The search for "a" was sent and the server has answered with the second
\* hundred of its search for "b": the fragment is the one of "b", page 2,
\* its event waits, and the only search on the wire is the one for "a".
C34_Witness ==
    /\ hash = <<"#", "query", "=", "b", "&", "page", "=", "2">>
    /\ Meta.totalSearch = 2
    /\ hashchange.queued >= 1
    /\ Len(navLog) = 1
    /\ navLog[1].noLoad
    /\ \E i \in DOMAIN wire : wire[i].command = "search"
    /\ \A i \in DOMAIN wire :
           wire[i].command = "search"
           => wire[i].args = execSearchArgs(Str(<<"a">>), Str(<<"1">>))

\* C35: a call of _setHash without forceLoad, made as a set operation, whose
\* newHash is the fragment hashRequest was last run on, makes no request.
C35_UnchangedNotReloaded ==
    [][(/\ navLog' # <<>>
        /\ navLog'[Len(navLog')].fn = "_setHash"
        /\ ~navLog'[Len(navLog')].forceLoad
        /\ navLog'[Len(navLog')].newHash = hashchange.loaded)
       => navLog'[Len(navLog')].made = <<>>]_vars

(***************************************************************************)
(* The claims about Meta.                                                  *)
(***************************************************************************)
\* The step is the processing of a message of the command that is not
\* flagged as an error.
Processes(command) ==
    \E s \in DOMAIN sockets : \E msg \in MetaMessages :
        /\ msg.command = command
        /\ msg.kind # "error"
        /\ WSMessage(s, msg)

\* The step is the processing of msg.
ProcessesMsg(msg) == \E s \in DOMAIN sockets : WSMessage(s, msg)

\* C19 as stated: totalRecords, totalSearch and tagsAvailable of Meta change
\* only in the processing of a meta message.
C19_MetaOnlyByMeta == [][Meta' # Meta => Processes("meta")]_vars

\* C19 as amended: totalRecords and tagsAvailable change only in the
\* processing of a meta message that is not flagged as an error, and are its
\* total and tags afterwards; totalSearch changes only in the processing
\* of a search message with results, and is its total afterwards.
C19_MetaByMetaAndSearch ==
    [][/\ (\/ Meta'.totalRecords # Meta.totalRecords
           \/ Meta'.tagsAvailable # Meta.tagsAvailable)
          => \E msg \in MetaMessages :
                 /\ msg.command = "meta"
                 /\ msg.kind = "ok"
                 /\ ProcessesMsg(msg)
                 /\ Meta'.totalRecords = msg.total
                 /\ Meta'.tagsAvailable = msg.tags
                 /\ Meta'.totalSearch = Meta.totalSearch
       /\ Meta'.totalSearch # Meta.totalSearch
          => \E msg \in MetaMessages :
                 /\ msg.command = "search"
                 /\ msg.kind = "ok"
                 /\ ProcessesMsg(msg)
                 /\ Meta'.totalSearch = msg.total
                 /\ Meta'.totalRecords = Meta.totalRecords
                 /\ Meta'.tagsAvailable = Meta.tagsAvailable]_vars

\* A meta message and a search message have been processed, and a view has
\* been displayed: Meta has the total and the tags of the one and the total
\* of the other.
C19_Witness ==
    /\ Meta = [totalRecords |-> 2, totalSearch |-> 1,
               tagsAvailable |-> {"t1", "t2"}]
    /\ view = "rows"

\* The step writes one frame, a meta request, on the wire.
SendsMeta ==
    /\ Len(wire') = Len(wire) + 1
    /\ SubSeq(wire', 1, Len(wire)) = wire
    /\ wire'[Len(wire')].command = "meta"

\* C20: the processing of an update message that says success sends a meta
\* request; the processing of an update message that does not makes no
\* request; and after the processing of a meta message Meta has its total
\* and its tags.
C20_MetaRefreshAfterUpdate ==
    [][\A msg \in Messages \cup MetaMessages :
           ProcessesMsg(msg)
           => /\ (msg.command = "update" /\ msg.kind = "ok") => SendsMeta
              /\ (msg.command = "update" /\ msg.kind = "fail")
                 => (wire' = wire /\ nCalls' = nCalls)
              /\ (msg.command = "meta" /\ msg.kind = "ok")
                 => /\ Meta'.totalRecords = msg.total
                    /\ Meta'.tagsAvailable = msg.tags]_vars

(***************************************************************************)
(* Claims about faults: time-outs, error messages, frames that do not      *)
(* decode, close and error events, reconnection.                           *)
(***************************************************************************)

\* The step is the v0.2.3 client processing a message whose data.error is
\* true.
ProcessesError ==
    \E msg \in MetaMessages : msg.kind = "error" /\ ProcessesMsg(msg)

\* No command handler runs on it: Meta, the fragment, the last loaded
\* fragment, the title and the displayed view stay, and no request is made.
ErrorSkipsHandlers ==
    ProcessesError
    => /\ Meta' = Meta
       /\ hash' = hash
       /\ _lastLoadedHash' = _lastLoadedHash
       /\ title' = title
       /\ view' = view
       /\ wire' = wire
       /\ nCalls' = nCalls
       /\ sockets' = sockets

\* The step is the correlator taking a message whose data.error is true.
TakesError == Len(rawInputQueue') > Len(rawInputQueue) /\ Arrived.error

\* No pending request is settled or removed by it.
ErrorSettlesNothing ==
    TakesError
    => /\ deferreds' = deferreds
       /\ promiseQueue' = promiseQueue
       /\ rawResolvedQueue' = rawResolvedQueue

\* The v0.2.3 client on its own keeps errors out of band.
ClientErrorOutOfBand == [][ErrorSkipsHandlers]_vars

\* C22: a message whose data.error is true, whatever its command, runs no
\* command handler and leaves Meta and the fragment unchanged, and no
\* pending request with its command tag is resolved or rejected.
C22_ErrorOutOfBand == [][ErrorSkipsHandlers /\ ErrorSettlesNothing]_vars

\* The step is the processing of a search message whose results are "error".
ProcessesSearchFailure ==
    \E msg \in MetaMessages :
        msg.command = "search" /\ msg.kind = "fail" /\ ProcessesMsg(msg)

\* C26: the processing of a search response that reports a failure leaves
\* Meta (totalSearch with it) and the displayed view as they are, makes no
\* socket and no request, writes nothing on the wire, and resets the
\* fragment to "#" by one _setHash with noLoad, which makes "#" the last
\* loaded fragment so that the hashchange that follows loads nothing.
C26_SearchFailure ==
    [][ProcessesSearchFailure
       => /\ Meta' = Meta
          /\ view' = view
          /\ sockets' = sockets /\ _socket' = _socket /\ _up' = _up
          /\ connecting' = connecting
          /\ wire' = wire /\ nCalls' = nCalls /\ afterShow' = afterShow
          /\ hash' = <<"#">>
          /\ _lastLoadedHash' = [isNull |-> FALSE, hash |-> <<"#">>]
          /\ Len(navLog') = 1
          /\ navLog'[1].fn = "_setHash"
          /\ navLog'[1].noLoad
          /\ navLog'[1].made = <<>>]_vars

\* A search was sent for the fragment of the query, rows of an earlier view
\* are displayed, and the failure has been processed: the fragment is "#",
\* the rows are still there and the search is the last frame on the wire.
C26_Witness ==
    /\ Len(navLog) = 1
    /\ navLog[1].fn = "_setHash"
    /\ navLog[1].noLoad
    /\ ~navLog[1].same
    /\ navLog[1].newHash = <<"#">>
    /\ hash = <<"#">>
    /\ _searchNote = "closing"
    /\ view = "rows"
    /\ wire # <<>>
    /\ wire[Len(wire)].command = "search"

\* The step is an error or close event of a socket of the v0.2.3 client.
SocketFaults ==
    \E s \in DOMAIN sockets :
        sockets'[s] # sockets[s] /\ sockets'[s] \in {"errored", "closed"}

\* With the event the manager is down and showReconnect has run: the alert
\* is in the page (shown now unless it was there) and the notes are
\* closing; the step makes no request, no send and no socket.
ClientHookWithEvent ==
    SocketFaults
    => /\ ~_up'
       /\ alertDiv' = (IF alertDiv = "none" THEN "shown" ELSE alertDiv)
       /\ (alertDiv = "none" /\ _searchNote # "null")
              => _searchNote' = "closing"
       /\ lastSend' = <<>>
       /\ wire' = wire
       /\ nCalls' = nCalls
       /\ Len(sockets') = Len(sockets)
       /\ _socket' = _socket

\* The step is an error or close event of the correlator's socket.
CorrFaults ==
    socketState' # socketState /\ socketState' \in {"errored", "closed"}

\* With the event rejectPromises has run: the queue is empty, every request
\* that was pending is rejected, and nothing was sent.
CorrHookWithEvent ==
    CorrFaults
    => /\ promiseQueue' = <<>>
       /\ \A d \in DOMAIN deferreds :
              deferreds[d].state = "pending"
              => deferreds'[d].state = "rejected"
       /\ sent' = sent
       /\ Len(deferreds') = Len(deferreds)

\* The correlator on its own runs its hook with the event.
CorrHookOrdering == [][CorrHookWithEvent]_vars

\* C23: on every close or error event the manager is marked down and the
\* hook (the reconnect prompt, the rejection of the pending requests) has
\* run when the event's step ends; the step has no send and no request in
\* it, so that none comes between the event and the hook.
C23_HookOrdering == [][ClientHookWithEvent /\ CorrHookWithEvent]_vars

\* A socket that had sent requests has failed: the manager is down and the
\* prompt is shown.
C23_Witness ==
    /\ sockets # <<>>
    /\ sockets[Len(sockets)] \in {"errored", "closed"}
    /\ \E i \in DOMAIN wire : wire[i].sock = Len(sockets)
    /\ ~_up
    /\ alertDiv = "shown"
    /\ lastSend = <<>>

\* The frames the step writes on the wire, by their places on it.
NewFrames == (Len(wire) + 1)..Len(wire')

\* The step is the opening of a socket.
Opens == \E s \in DOMAIN sockets : sockets[s] = "connecting" /\ sockets'[s] = "open"

\* C24: no request is sent again.  Every frame a step writes is of a request
\* object made in that step, or of the search the note held back for its
\* afterShow, and no earlier frame is of that request: a request that was
\* written before a fault, lost, dropped or thrown away by a send is on the
\* wire at most once.  The opening of a socket makes the meta request and
\* the requests of one hashRequest on the current fragment, no other.
C24_NoRetry ==
    [][/\ SubSeq(wire', 1, Len(wire)) = wire
       /\ \A i \in NewFrames :
              /\ \A j \in 1..(i - 1) : wire'[j].req # wire'[i].req
              /\ \/ wire'[i].req > nCalls
                 \/ \E call \in afterShow :
                        /\ call.req = wire'[i].req
                        /\ call \notin afterShow'
       /\ Opens
          => /\ \A i \in NewFrames :
                    wire'[i].command
                        \in {"meta", CommandFor(ParsedHash(hash).operation)}
             /\ IF navLog' = <<>>
                THEN nCalls' = nCalls + 1
                ELSE LET last == navLog'[Len(navLog')]
                     IN /\ last.fn = "hashRequest"
                        /\ last.newHash = hash
                        /\ nCalls' = nCalls + 1 + Len(last.made)
                        /\ last.made \in
                               {<<>>, <<CommandFor(last.request.operation)>>}]_vars

\* A search was dropped because the connection was down, the socket made
\* in its place has opened, and the wire has the meta request and the
\* search of the fragment made at the opening, not the dropped request.
C24_Witness ==
    /\ Len(sockets) = 2
    /\ sockets[2] = "open"
    /\ nCalls = 3
    /\ Len(wire) = 2
    /\ wire[1].command = "meta" /\ wire[1].req = 2
    /\ wire[2].command = "search" /\ wire[2].req = 3
    /\ Len(navLog) = 1
    /\ navLog[1].fn = "hashRequest"

\* C25: there is no time-out.  A pending request stays pending, with its
\* entry in the queue, over every step in which the connection has no error
\* or close event and no message with the request's command tag arrives:
\* other requests, the opening of the socket, messages with other tags and
\* frames that do not decode neither settle nor remove it.
C25_NoTimeout ==
    [][\A d \in DOMAIN deferreds :
          (/\ deferreds[d].state = "pending"
           /\ socketState' \in {"connecting", "open"}
           /\ (Len(rawInputQueue') > Len(rawInputQueue)
                  => Arrived.command # deferreds[d].command))
          => /\ deferreds'[d] = deferreds[d]
             /\ \E i \in DOMAIN promiseQueue' : promiseQueue'[i][2] = d]_vars

\* A request is still pending on the open connection after two messages
\* with other tags have arrived, one of which settled a later request.
C25_Witness ==
    /\ socketState = "open"
    /\ \E d, e \in DOMAIN deferreds :
          /\ d < e
          /\ deferreds[d].state = "pending"
          /\ InQueue(d)
          /\ Len(rawInputQueue) >= deferreds[d].seen + 2
          /\ deferreds[e].state = "resolved"

(***************************************************************************)
(* Claims about the frame codec.                                           *)
(***************************************************************************)

\* The exceptions of atob, pako.inflate and JSON.parse.
DecodeErrors == {"InvalidCharacterError", "inflate", "SyntaxError"}

\* The step is the correlator's handler, or the v0.2.3 client's, taking a
\* frame that is not the wrapped form of a message.
CorrTakesMalformed == \E f \in MalformedFrames : OnFrame(f)
ClientTakesMalformed ==
    \E s \in DOMAIN sockets : \E f \in MalformedFrames : WSFrame(s, f)

\* The v0.2.3 client on a malformed frame: the exception leaves the handler
\* and nothing of the client changes.
ClientDecodeFault ==
    [][ClientTakesMalformed
       => thrown' \in DecodeErrors /\ UNCHANGED wsVars]_vars

\* C27: a frame that fails atob, inflate or JSON.parse makes the inbound
\* handler end with the exception of the stage that failed, and nothing
\* else: no message is recorded or delivered, the pending requests and
\* their deferreds are as before, and so are Meta, the fragment, the view
\* and the sockets of the client.
C27_DecodeFault ==
    [][/\ CorrTakesMalformed
          => /\ thrown' \in DecodeErrors
             /\ UNCHANGED <<promiseQueue, rawInputQueue, rawResolvedQueue,
                            deferreds, sent, socketState>>
       /\ ClientTakesMalformed
          => thrown' \in DecodeErrors /\ UNCHANGED wsVars]_vars

\* A frame has failed to decode while a request was pending and after a
\* well-formed frame had settled another one.
C27_Witness ==
    /\ thrown \in DecodeErrors
    /\ socketState = "open"
    /\ promiseQueue # <<>>
    /\ rawResolvedQueue # <<>>
    /\ \E d \in DOMAIN deferreds : deferreds[d].state = "pending"

\* The codec has decoded the wrapped form of the message.
HasDecoded == decoded # NotDecoded

\* The round trip of a message whose serialised form is ASCII: the text is
\* ASCII, or the serialiser escapes what is not.
AsciiRoundTrip ==
    (HasDecoded /\ (escaped \/ \A i \in DOMAIN message.data :
                                    message.data[i] < 128))
    => decoded = Returned(message)

\* C30: the inbound pipeline applied to the transport-wrapped form of a
\* message, its text with characters outside ASCII or not, returns a
\* message equal to it.
C30_RoundTrip == HasDecoded => decoded = Returned(message)

(***************************************************************************)
(* Claims about the data source of the grid.                               *)
(***************************************************************************)

\* On every socket of the v0.2.3 client a frame of a view or of a search
\* has a frame of a meta request before it.
ClientMetaFirst ==
    \A i \in DOMAIN wire :
        wire[i].command \in {"view", "search"}
        => \E j \in 1..(i - 1) :
               wire[j].command = "meta" /\ wire[j].sock = wire[i].sock

\* The grid has the data source only when the meta request of initGrid has
\* been resolved, rowCount being the total of that response; and a view
\* request of getRows has the meta request before it.
GridPrimed ==
    /\ dataSource.installed
       => /\ metaCall # 0
          /\ deferreds[metaCall].state = "resolved"
          /\ deferreds[metaCall].value.command = "meta"
          /\ dataSource.rowCount = deferreds[metaCall].value.id
    /\ gridCalls # <<>> => dataSource.installed
    /\ \A i \in DOMAIN requests :
           requests[i].command = "view"
           => \E j \in 1..(i - 1) : requests[j].command = "meta"

\* The opening of a socket of the v0.2.3 client writes the meta request
\* before the request of the fragment.
ClientMetaFirstAtOpen ==
    [][(Opens /\ Len(wire') > Len(wire))
       => wire'[Len(wire) + 1].command = "meta"]_vars

OwnRoundTrip(k) ==
    /\ \A j \in DOMAIN gridCalls :
           j # k => gridCalls[j].deferred # gridCalls[k].deferred
    /\ deferreds[gridCalls[k].deferred].command = "view"
    /\ Cardinality({i \in DOMAIN requests : requests[i].command = "view"})
           = Len(gridCalls)

\* C28: every call of getRows sends one view request with the startRow and
\* the endRow of the call, through a deferred no other call has, and calls
\* one of its callbacks at most once: successCallback when that deferred is
\* resolved, failCallback when it is rejected.
C28_IndependentRoundTrips ==
    \A k \in DOMAIN gridCalls :
        /\ gridCalls[k].request.command = "view"
        /\ gridCalls[k].request.start = gridCalls[k].startRow
        /\ gridCalls[k].request.end = gridCalls[k].endRow
        /\ OwnRoundTrip(k)
        /\ gridCalls[k].success + gridCalls[k].fail <= 1
        /\ gridCalls[k].success = 1
           => deferreds[gridCalls[k].deferred].state = "resolved"
        /\ gridCalls[k].fail = 1
           => deferreds[gridCalls[k].deferred].state = "rejected"


====
